---- MODULE Spec2Model ----
(***************************************************************************)
(* Session / matchmaking / relay engine of the voice-chat signaling        *)
(* server: the UserPool (backend/models/models.go) and the per-session     *)
(* handlers of the SignalingServer (backend/handlers/signalings.go).       *)
(*                                                                         *)
(* Every UserPool method runs under the pool mutex and is one atomic       *)
(* step.  A handler that calls several pool methods is a sequence of       *)
(* steps, one per lock acquisition, with the handler's position kept in    *)
(* pc and its local variables in partner / room.                           *)
(***************************************************************************)
EXTENDS Integers, Sequences, FiniteSets, TLC

\* ---------------------------------------------------------------- bounds
NumSources == 3    \* source addresses that call the rate limiter
MaxCap   == 2      \* the largest configured cap of connections per source
NumPairs == 3      \* pairs of users the concurrency tests call CreateRoom on
NumUsers == 3      \* sessions that may be accepted (each gets a fresh id)
MaxReqs  == 2      \* find_match frames read by the server, all sessions
MaxIdle  == 1      \* sessions whose LastPing grows older than the cutoff
MaxDown  == 1      \* sessions whose channel write fails
MaxExits == 1      \* sessions whose read loop ends
MaxMsgs  == 2      \* offer / answer / ice_candidate frames read, all sessions
MaxPings == 1      \* ping frames the heartbeats write, all sessions

Users  == 1..NumUsers
NoUser == 0        \* the empty string of PartnerID / a nil *User
NoRoom == 0        \* the empty string of RoomID / a nil *Room
\* durations, in units of 15 seconds
Period   == 2      \* the ticker of the reaper: 30 s
Cutoff   == 20     \* performCleanup: LastPing older than 5 minutes
Deadline == 4      \* the read deadline of the read loop: 60 s
MaxTime  == 24     \* the runs with time end at this time
DefaultMaxWSConnPerIP == 10   \* MAX_WS_CONN_PER_IP when the environment has none
MaxSDPSize == 10240   \* the size limit of a session description, in bytes
NoTime == -1       \* a nil *time.Time (StartedAt, EndedAt), before any clock reading

VARIABLES
  WaitingUsers,    \* UserPool.WaitingUsers : keys of the map
  ActiveUsers,     \* UserPool.ActiveUsers  : keys of the map
  Rooms,           \* UserPool.Rooms        : room id -> Room
  UserRooms,       \* UserPool.UserRooms    : user id -> room id
  users,           \* the User objects: Status, PartnerID, RoomID, CallState
  conn,            \* the Connection objects: IsActive, up, closes
  frames,          \* frames written successfully to each user's channel
  pc,              \* position of each session's goroutine
  partner,         \* handler local: partner
  room,            \* handler local: room returned by CreateRoom
  reqs,            \* find_match frames read so far
  clock,           \* time.Now() in seconds, as read by generateRoomID
  reaped,          \* history: users the reaper has deleted from the pool
  roomLog,         \* history: the rooms CreateRoom has returned, in order
  endedWith,       \* history: whom a user was paired with when its read
                   \*          loop ended
  reapedWith,      \* history: whom a user was paired with when the reaper
                   \*          deleted it while its read loop was running
  lim,             \* the budgets of the run: how many inputs and failures
                   \*          the environment produces (fixed at Init)
  cur,             \* handler local: the message being handled (msg)
  nread,           \* history: relay frames read from each session so far
  hb,              \* position of each session's heartbeat goroutine
  again,           \* handleDisconnect has been invoked a second time
  snap,            \* history: pool and frames when the second invocation
                   \*          of handleDisconnect began
  now,             \* the time since the pool was created, in units of
                   \*          15 seconds
  nextTick,        \* when the ticker of cleanupInactiveConnections fires
  LastPing,        \* Connection.LastPing of each session
  wsConnections,   \* RateLimiter.wsConnections : source address -> count
  maxWSConnPerIP,  \* RateLimiter.maxWSConnPerIP
  ret,             \* history: the last call of the rate limiter and what
                   \*          it returned
  main             \* position of main: serving, or past UserPool.Shutdown
                   \*          (the pool's context is cancelled), or exited

poolVars == <<WaitingUsers, ActiveUsers, Rooms, UserRooms, users>>
vars == <<WaitingUsers, ActiveUsers, Rooms, UserRooms, users, conn, frames,
          pc, partner, room, reqs, clock, reaped, roomLog, endedWith,
          reapedWith, lim, cur, nread, hb, again, snap, now, nextTick,
          LastPing, wsConnections, maxWSConnPerIP, ret, main>>
hist == <<roomLog, endedWith, reapedWith>>
\* what the matchmaking and teardown steps never touch
\* the rate limiter and main
aux == <<wsConnections, maxWSConnPerIP, ret, main>>
ext == <<lim, cur, nread, hb, again, snap, now, nextTick, LastPing, aux>>

\* ------------------------------------------------------------ connection
Frame(type, from, roomID, role) ==
  [type |-> type, from |-> from, room |-> roomID, role |-> role]

\* JSON values of a payload: a string is the sequence of the substrings it
\* is made of, a number or a missing key carries nothing
Str(toks)  == [tag |-> "str", val |-> toks]
Num        == [tag |-> "num", val |-> << >>]
Missing    == [tag |-> "absent", val |-> << >>]

\* a payload that is a JSON object with these keys, or (isMap = FALSE) any
\* other JSON value
Payload(isMap, sdp, type, candidate, sdpMLineIndex, sdpMid) ==
  [isMap |-> isMap, sdp |-> sdp, type |-> type, candidate |-> candidate,
   sdpMLineIndex |-> sdpMLineIndex, sdpMid |-> sdpMid]

NoPayload == Payload(FALSE, Missing, Missing, Missing, Missing, Missing)

\* ReadJSON: the JSON decoder replaces an escape that is no valid UTF-16
\* (a lone surrogate) in a string by the replacement character U+FFFD
DecodeStr(toks) ==
  [i \in 1..Len(toks) |-> IF toks[i] = "\\ud800" THEN "\\ufffd" ELSE toks[i]]

DecodeValue(v) == IF v.tag = "str" THEN Str(DecodeStr(v.val)) ELSE v

Decode(payload) ==
  Payload(payload.isMap, DecodeValue(payload.sdp), DecodeValue(payload.type),
          DecodeValue(payload.candidate), payload.sdpMLineIndex,
          DecodeValue(payload.sdpMid))

\* Message as the read loop and the relay handlers hold it; history: seq,
\* the position of the frame among those read from its sender, and sent,
\* the payload as the client sent it.  error is the text handed to sendError
Msg(type, payload, from, to) ==
  [type |-> type, payload |-> Decode(payload), from |-> from, to |-> to,
   seq |-> 0, sent |-> payload, error |-> << >>]

NoMsg == Msg("", NoPayload, NoUser, NoUser)

\* the frame WriteJSON(msg) puts on the channel
Relayed(m) ==
  [type |-> m.type, payload |-> m.payload, from |-> m.from, to |-> m.to,
   seq |-> m.seq]

\* the frame sendError writes
ErrorFrame(message) == [type |-> "error", message |-> message]

\* WriteJSON without the test of IsActive
WriteJSONUnchecked(c, f, ok) ==
  \/ /\ ok
     /\ conn[c].up
     /\ frames' = [frames EXCEPT ![c] = Append(@, f)]
     /\ conn' = conn
  \/ /\ ~ok
     /\ ~conn[c].up
     /\ UNCHANGED <<frames, conn>>
  \/ /\ ~ok
     /\ conn[c].up
     /\ Cardinality({v \in Users : ~conn[v].up}) < lim.down
     /\ conn' = [conn EXCEPT ![c].up = FALSE]
     /\ frames' = frames

\* Connection.WriteJSON(f) on c's connection, returning ok.  It fails when
\* the connection is not active; otherwise the channel write succeeds, or
\* fails and keeps failing (the channel's write error is sticky).
WriteJSON(c, f, ok) ==
  \/ /\ ok
     /\ conn[c].IsActive /\ conn[c].up
     /\ frames' = [frames EXCEPT ![c] = Append(@, f)]
     /\ conn' = conn
  \/ /\ ~ok
     /\ ~(conn[c].IsActive /\ conn[c].up)
     /\ UNCHANGED <<frames, conn>>
  \/ /\ ~ok
     /\ conn[c].IsActive /\ conn[c].up
     /\ Cardinality({v \in Users : ~conn[v].up}) < lim.down
     /\ conn' = [conn EXCEPT ![c].up = FALSE]
     /\ frames' = frames

\* Connection.Close: IsActive = false, then Conn.Close() on the channel
Close(cs, c) ==
  [cs EXCEPT ![c].IsActive = FALSE, ![c].closes = @ + 1]

\* ------------------------------------------------------------- user pool
AddWaitingUser(u) ==
  /\ users' = [users EXCEPT ![u].Status = "waiting"]
  /\ WaitingUsers' = WaitingUsers \cup {u}
  /\ UNCHANGED <<ActiveUsers, Rooms, UserRooms>>

\* GetRandomWaitingUser without the id != excludeID test
GetRandomWaitingUserAny(excludeID) ==
  IF WaitingUsers = {} THEN {NoUser} ELSE WaitingUsers

\* the users the map iteration of GetRandomWaitingUser may return
GetRandomWaitingUser(excludeID) ==
  IF WaitingUsers \ {excludeID} = {} THEN {NoUser}
  ELSE WaitingUsers \ {excludeID}

\* time.Now().Format("20060102150405") + "-room": one id per second
generateRoomID(t) == t

\* CreateRoom that puts only its first user into ActiveUsers
CreateRoomOneActive(user1, user2, roomID) ==
  /\ Rooms' = [r \in DOMAIN Rooms \cup {roomID} |->
                 IF r = roomID
                 THEN [ID |-> roomID, User1ID |-> user1, User2ID |-> user2,
                       IsActive |-> TRUE, CallState |-> "idle",
                       StartedAt |-> NoTime, EndedAt |-> NoTime]
                 ELSE Rooms[r]]
  /\ users' = users
  /\ WaitingUsers' = WaitingUsers \ {user1, user2}
  /\ ActiveUsers' = ActiveUsers \cup {user1}
  /\ UserRooms' = [v \in DOMAIN UserRooms \cup {user1, user2} |->
                     IF v \in {user1, user2} THEN roomID ELSE UserRooms[v]]

\* CreateRoom without the deletes from WaitingUsers
CreateRoomKeepsWaiting(user1, user2, roomID) ==
  /\ Rooms' = [r \in DOMAIN Rooms \cup {roomID} |->
                 IF r = roomID
                 THEN [ID |-> roomID, User1ID |-> user1, User2ID |-> user2,
                       IsActive |-> TRUE, CallState |-> "idle",
                       StartedAt |-> NoTime, EndedAt |-> NoTime]
                 ELSE Rooms[r]]
  /\ users' = [v \in DOMAIN users |->
                 IF v = user2
                 THEN [Status |-> "connected", PartnerID |-> user1,
                       RoomID |-> roomID, CallState |-> "idle"]
                 ELSE IF v = user1
                 THEN [Status |-> "connected", PartnerID |-> user2,
                       RoomID |-> roomID, CallState |-> "idle"]
                 ELSE users[v]]
  /\ WaitingUsers' = WaitingUsers
  /\ ActiveUsers' = ActiveUsers \cup {user1, user2}
  /\ UserRooms' = [v \in DOMAIN UserRooms \cup {user1, user2} |->
                     IF v \in {user1, user2} THEN roomID ELSE UserRooms[v]]

CreateRoom(user1, user2, roomID) ==
  /\ Rooms' = [r \in DOMAIN Rooms \cup {roomID} |->
                 IF r = roomID
                 THEN [ID |-> roomID, User1ID |-> user1, User2ID |-> user2,
                       IsActive |-> TRUE, CallState |-> "idle",
                       StartedAt |-> NoTime, EndedAt |-> NoTime]
                 ELSE Rooms[r]]
  /\ users' = [v \in DOMAIN users |->
                 IF v = user2
                 THEN [Status |-> "connected", PartnerID |-> user1,
                       RoomID |-> roomID, CallState |-> "idle"]
                 ELSE IF v = user1
                 THEN [Status |-> "connected", PartnerID |-> user2,
                       RoomID |-> roomID, CallState |-> "idle"]
                 ELSE users[v]]
  /\ WaitingUsers' = WaitingUsers \ {user1, user2}
  /\ ActiveUsers' = ActiveUsers \cup {user1, user2}
  /\ UserRooms' = [v \in DOMAIN UserRooms \cup {user1, user2} |->
                     IF v \in {user1, user2} THEN roomID ELSE UserRooms[v]]

OtherUser(r, userID) ==
  IF r.User1ID = userID THEN r.User2ID ELSE r.User1ID

\* Rooms and UserRooms after RemoveUser(userID)
RemoveUserRooms(userID) ==
  IF userID \in DOMAIN UserRooms /\ UserRooms[userID] \in DOMAIN Rooms
  THEN [Rooms EXCEPT ![UserRooms[userID]].IsActive = FALSE]
  ELSE Rooms

RemoveUserUserRooms(userID) ==
  IF userID \in DOMAIN UserRooms
  THEN IF UserRooms[userID] \in DOMAIN Rooms
       THEN [v \in DOMAIN UserRooms \
                   {OtherUser(Rooms[UserRooms[userID]], userID), userID}
               |-> UserRooms[v]]
       ELSE [v \in DOMAIN UserRooms \ {userID} |-> UserRooms[v]]
  ELSE UserRooms

RemoveUser(userID) ==
  /\ Rooms' = RemoveUserRooms(userID)
  /\ UserRooms' = RemoveUserUserRooms(userID)
  /\ WaitingUsers' = WaitingUsers \ {userID}
  /\ ActiveUsers' = ActiveUsers \ {userID}
  /\ UNCHANGED users

FindPartner(userID) ==
  IF /\ userID \in DOMAIN UserRooms
     /\ UserRooms[userID] \in DOMAIN Rooms
     /\ Rooms[UserRooms[userID]].IsActive
  THEN LET partnerID == OtherUser(Rooms[UserRooms[userID]], userID) IN
       IF partnerID \in ActiveUsers THEN partnerID ELSE NoUser
  ELSE NoUser

\* MoveToWaiting without the delete from ActiveUsers
MoveToWaitingKeepsActive(userID) ==
  /\ IF userID \in ActiveUsers
     THEN /\ ActiveUsers' = ActiveUsers
          /\ WaitingUsers' = WaitingUsers \cup {userID}
          /\ users' = [users EXCEPT ![userID].Status = "waiting",
                                    ![userID].PartnerID = NoUser,
                                    ![userID].RoomID = NoRoom]
     ELSE UNCHANGED <<ActiveUsers, WaitingUsers, users>>
  /\ UNCHANGED <<Rooms, UserRooms>>

MoveToWaiting(userID) ==
  /\ IF userID \in ActiveUsers
     THEN /\ ActiveUsers' = ActiveUsers \ {userID}
          /\ WaitingUsers' = WaitingUsers \cup {userID}
          /\ users' = [users EXCEPT ![userID].Status = "waiting",
                                    ![userID].PartnerID = NoUser,
                                    ![userID].RoomID = NoRoom]
     ELSE UNCHANGED <<ActiveUsers, WaitingUsers, users>>
  /\ UNCHANGED <<Rooms, UserRooms>>

GetStats ==
  [waiting_users |-> Cardinality(WaitingUsers),
   active_users  |-> Cardinality(ActiveUsers),
   active_rooms  |-> Cardinality(DOMAIN Rooms)]

\* performCleanup, where idle is the set of users whose
\* Connection.LastPing is before the cutoff when the reaper runs
performCleanup(idle) ==
  LET StaleWaiting == WaitingUsers \cap idle
      StaleActive  == ActiveUsers \cap idle
  IN
  /\ WaitingUsers' = WaitingUsers \ StaleWaiting
  /\ ActiveUsers' = ActiveUsers \ StaleActive
  /\ Rooms' = [r \in DOMAIN Rooms |->
                 IF \E u \in StaleActive :
                      u \in DOMAIN UserRooms /\ UserRooms[u] = r
                 THEN [Rooms[r] EXCEPT !.IsActive = FALSE]
                 ELSE Rooms[r]]
  /\ UserRooms' = [v \in DOMAIN UserRooms \ StaleActive |-> UserRooms[v]]
  /\ conn' = [c \in Users |->
                IF c \in StaleWaiting \cup StaleActive
                THEN [conn[c] EXCEPT !.IsActive = FALSE, !.closes = @ + 1]
                ELSE conn[c]]
  /\ UNCHANGED users

\* ------------------------------------------------------------------ init
\* NewRateLimiter(.., .., cap): no source has a connection
NoCall == [op |-> "none", ip |-> 0, ok |-> FALSE]

NewRateLimiter(cap) ==
  /\ wsConnections = << >>
  /\ maxWSConnPerIP = cap
  /\ ret = NoCall

\* the state after main has made a rate limiter with the cap cap and the
\* pool, and after the sessions of connected have been accepted (session
\* frame written, user added to the waiting pool, read loop started), with
\* budgets l
StartWith(cap, l, connected) ==
  /\ NewRateLimiter(cap)
  /\ main = "serving"
  /\ lim = l
  /\ cur = [u \in Users |-> NoMsg]
  /\ nread = [u \in Users |-> 0]
  /\ hb = [u \in Users |-> IF u \in connected THEN "run" ELSE "none"]
  /\ again = [u \in Users |-> FALSE]
  /\ snap = << >>
  /\ WaitingUsers = connected
  /\ ActiveUsers = {}
  /\ Rooms = << >>
  /\ UserRooms = << >>
  /\ users = [u \in Users |-> [Status |-> "waiting", PartnerID |-> NoUser,
                               RoomID |-> NoRoom, CallState |-> ""]]
  /\ conn = [u \in Users |-> [IsActive |-> TRUE, up |-> TRUE,
                              closes |-> 0]]
  /\ frames = [u \in Users |->
                 IF u \in connected
                 THEN <<Frame("session", NoUser, NoRoom, "")>> ELSE << >>]
  /\ pc = [u \in Users |-> IF u \in connected THEN "reading" ELSE "accept"]
  /\ partner = [u \in Users |-> NoUser]
  /\ room = [u \in Users |-> NoRoom]
  /\ reqs = 0
  /\ clock = 0
  /\ reaped = {}
  /\ roomLog = << >>
  /\ endedWith = [u \in Users |-> NoUser]
  /\ reapedWith = [u \in Users |-> NoUser]
  /\ now = 0
  /\ nextTick = Period
  /\ LastPing = [u \in Users |-> 0]

\* the same with the default cap of the configuration
Start(l, connected) == StartWith(DefaultMaxWSConnPerIP, l, connected)

Lim == [reqs |-> MaxReqs, idle |-> MaxIdle, down |-> MaxDown,
        exits |-> MaxExits, msgs |-> 0, pings |-> 0]

Init == Start(Lim, {})

\* --------------------------------------------------------------- actions
\* HandleWebSocket up to the start of the read loop: the session frame is
\* written; on a write error the connection is closed and the handler
\* returns, otherwise the user is added to the waiting pool and the
\* heartbeat goroutine is started.
HandleWebSocket(u) ==
  /\ pc[u] = "accept"
  /\ \E ok \in BOOLEAN :
       IF ok
       THEN /\ WriteJSON(u, Frame("session", NoUser, NoRoom, ""), TRUE)
            /\ AddWaitingUser(u)
            /\ pc' = [pc EXCEPT ![u] = "reading"]
            /\ hb' = [hb EXCEPT ![u] = "run"]
       ELSE /\ Cardinality({v \in Users : ~conn[v].up}) < lim.down
            /\ conn' = Close([conn EXCEPT ![u].up = FALSE], u)
            /\ pc' = [pc EXCEPT ![u] = "refused"]
            /\ UNCHANGED <<frames, poolVars, hb>>
  /\ LastPing' = [LastPing EXCEPT ![u] = now]
  /\ UNCHANGED <<partner, room, reqs, clock, reaped, hist>>
  /\ UNCHANGED <<lim, aux, now, nextTick, cur, nread, again, snap>>

\* handleUserMessages: a find_match frame is read; handleFindMatch looks for
\* a partner and, when there is none, writes the waiting frame and returns.
RecvFindMatch(u) ==
  /\ pc[u] = "reading"
  /\ conn[u].IsActive /\ conn[u].up
  /\ reqs < lim.reqs
  /\ reqs' = reqs + 1
  /\ \E p \in GetRandomWaitingUser(u) :
       IF p = NoUser
       THEN /\ \E ok \in BOOLEAN :
                 WriteJSON(u, Frame("waiting", NoUser, NoRoom, ""), ok)
            /\ UNCHANGED <<partner, pc>>
       ELSE /\ partner' = [partner EXCEPT ![u] = p]
            /\ pc' = [pc EXCEPT ![u] = "fm_create"]
            /\ UNCHANGED <<frames, conn>>
  /\ UNCHANGED <<poolVars, room, clock, reaped, hist>>
  /\ LastPing' = [LastPing EXCEPT ![u] = now]
  /\ UNCHANGED <<lim, aux, cur, nread, hb, again, snap, now, nextTick>>

\* handleFindMatch: room := CreateRoom(user, partner)
FindMatchCreate(u) ==
  /\ pc[u] = "fm_create"
  /\ \E t \in {clock, clock + 1} :
       /\ t >= 1
       /\ clock' = t
       /\ CreateRoom(u, partner[u], generateRoomID(t))
       /\ room' = [room EXCEPT ![u] = generateRoomID(t)]
       /\ roomLog' = Append(roomLog, [ID |-> generateRoomID(t),
                                      User1ID |-> u, User2ID |-> partner[u]])
  /\ pc' = [pc EXCEPT ![u] = "fm_notify"]
  /\ UNCHANGED <<conn, frames, partner, reqs, reaped, endedWith, reapedWith>>
  /\ UNCHANGED ext

\* handleFindMatch: match_found to the requester; a write error returns
FindMatchNotify(u) ==
  /\ pc[u] = "fm_notify"
  /\ \E ok \in BOOLEAN :
       /\ WriteJSON(u, Frame("match_found", partner[u], room[u], "caller"), ok)
       /\ pc' = [pc EXCEPT ![u] = IF ok THEN "fm_notify_partner"
                                  ELSE "reading"]
       /\ partner' = IF ok THEN partner ELSE [partner EXCEPT ![u] = NoUser]
       /\ room' = IF ok THEN room ELSE [room EXCEPT ![u] = NoRoom]
  /\ UNCHANGED <<poolVars, reqs, clock, reaped, hist>>
  /\ UNCHANGED ext

\* handleFindMatch: match_found to the partner
FindMatchNotifyPartner(u) ==
  /\ pc[u] = "fm_notify_partner"
  /\ \E ok \in BOOLEAN :
       WriteJSON(partner[u], Frame("match_found", u, room[u], "callee"), ok)
  /\ pc' = [pc EXCEPT ![u] = "reading"]
  /\ partner' = [partner EXCEPT ![u] = NoUser]
  /\ room' = [room EXCEPT ![u] = NoRoom]
  /\ UNCHANGED <<poolVars, reqs, clock, reaped, hist>>
  /\ UNCHANGED ext

\* the read loop of u's session is running: the user was added to the pool
\* and handleDisconnect has not been called
SessionAlive(u) ==
  pc[u] \in {"reading", "fm_create", "fm_notify", "fm_notify_partner"}

\* the user u is paired with: both are active, partners of each other by
\* their PartnerID fields and by the room UserRooms binds them to
PairedWith(u) ==
  IF /\ u \in ActiveUsers
     /\ FindPartner(u) # NoUser
     /\ FindPartner(u) # u
     /\ FindPartner(FindPartner(u)) = u
     /\ users[u].PartnerID = FindPartner(u)
     /\ users[FindPartner(u)].PartnerID = u
  THEN FindPartner(u)
  ELSE NoUser

TeardownPcs == {"dc_find", "dc_notify", "dc_move", "dc_remove", "dc_close",
                "done"}

\* the read loop ends: ReadJSON fails (client close, read error, read
\* deadline, channel closed by the server) or a disconnect frame is read;
\* handleUserMessages returns and handleDisconnect is called.
ReadLoopExit(u) ==
  /\ pc[u] = "reading"
  /\ Cardinality({v \in Users : pc[v] \in TeardownPcs}) < lim.exits
  /\ pc' = [pc EXCEPT ![u] = "dc_find"]
  /\ endedWith' = [endedWith EXCEPT ![u] = PairedWith(u)]
  /\ UNCHANGED <<poolVars, conn, frames, partner, room, reqs, clock, reaped,
                 roomLog, reapedWith>>
  /\ UNCHANGED ext

\* the read loop ends because the session's channel is closed: ReadJSON on
\* a connection the server has closed (or whose channel has failed) returns
\* an error, handleUserMessages returns and handleDisconnect is called.
ReadLoopClosed(u) ==
  /\ pc[u] = "reading"
  /\ ~(conn[u].IsActive /\ conn[u].up)
  /\ pc' = [pc EXCEPT ![u] = "dc_find"]
  /\ endedWith' = [endedWith EXCEPT ![u] = PairedWith(u)]
  /\ UNCHANGED <<poolVars, conn, frames, partner, room, reqs, clock, reaped,
                 roomLog, reapedWith>>
  /\ UNCHANGED ext

\* handleDisconnect: partner := FindPartner(user.ID)
DisconnectFind(u) ==
  /\ pc[u] = "dc_find"
  /\ partner' = [partner EXCEPT ![u] = FindPartner(u)]
  /\ pc' = [pc EXCEPT ![u] = IF FindPartner(u) = NoUser THEN "dc_remove"
                             ELSE "dc_notify"]
  /\ UNCHANGED <<poolVars, conn, frames, room, reqs, clock, reaped, hist>>
  /\ UNCHANGED ext

\* handleDisconnect: partner_disconnected to the partner, best effort
DisconnectNotify(u) ==
  /\ pc[u] = "dc_notify"
  /\ \E ok \in BOOLEAN :
       WriteJSON(partner[u],
                 Frame("partner_disconnected", NoUser, NoRoom, ""), ok)
  /\ pc' = [pc EXCEPT ![u] = "dc_move"]
  /\ UNCHANGED <<poolVars, partner, room, reqs, clock, reaped, hist>>
  /\ UNCHANGED ext

\* handleDisconnect: MoveToWaiting(partner.ID)
DisconnectMove(u) ==
  /\ pc[u] = "dc_move"
  /\ MoveToWaiting(partner[u])
  /\ pc' = [pc EXCEPT ![u] = "dc_remove"]
  /\ UNCHANGED <<conn, frames, partner, room, reqs, clock, reaped, hist>>
  /\ UNCHANGED ext

\* teardown going on to the close without the call of RemoveUser
DisconnectRemoveKeepsUser(u) ==
  /\ pc[u] = "dc_remove"
  /\ pc' = [pc EXCEPT ![u] = "dc_close"]
  /\ UNCHANGED <<poolVars, conn, frames, partner, room, reqs, clock, reaped,
                 hist>>
  /\ UNCHANGED ext

\* handleDisconnect: RemoveUser(user.ID)
DisconnectRemove(u) ==
  /\ pc[u] = "dc_remove"
  /\ RemoveUser(u)
  /\ pc' = [pc EXCEPT ![u] = "dc_close"]
  /\ UNCHANGED <<conn, frames, partner, room, reqs, clock, reaped, hist>>
  /\ UNCHANGED ext

\* handleDisconnect: user.Connection.Close()
DisconnectClose(u) ==
  /\ pc[u] = "dc_close"
  /\ conn' = Close(conn, u)
  /\ pc' = [pc EXCEPT ![u] = "done"]
  /\ partner' = [partner EXCEPT ![u] = NoUser]
  /\ UNCHANGED <<poolVars, frames, room, reqs, clock, reaped, hist>>
  /\ UNCHANGED ext

\* A session can have a LastPing older than the five-minute cutoff only when
\* its read loop is not blocked in ReadJSON: the 60 s read deadline ends a
\* blocked read long before.  A user the reaper has closed gets no frame any
\* more and stays idle.
MayBeIdle == {u \in WaitingUsers \cup ActiveUsers :
                pc[u] \notin {"accept", "reading"}}

\* one tick of cleanupInactiveConnections that finds the users of idle with
\* a LastPing before the cutoff
Reaper ==
  \E idle \in SUBSET MayBeIdle :
    /\ main = "serving"
    /\ idle # {}
    /\ reaped \cap (WaitingUsers \cup ActiveUsers) \subseteq idle
    /\ Cardinality(reaped \cup idle) <= lim.idle
    /\ performCleanup(idle)
    /\ reaped' = reaped \cup idle
    /\ reapedWith' = [u \in Users |->
                        IF u \in idle /\ SessionAlive(u) THEN PairedWith(u)
                        ELSE reapedWith[u]]
    /\ UNCHANGED <<frames, pc, partner, room, reqs, clock, roomLog, endedWith>>
    /\ UNCHANGED ext

Next ==
  \/ \E u \in Users : HandleWebSocket(u)
  \/ \E u \in Users : RecvFindMatch(u)
  \/ \E u \in Users : FindMatchCreate(u)
  \/ \E u \in Users : FindMatchNotify(u)
  \/ \E u \in Users : FindMatchNotifyPartner(u)
  \/ \E u \in Users : ReadLoopExit(u)
  \/ \E u \in Users : DisconnectFind(u)
  \/ \E u \in Users : DisconnectNotify(u)
  \/ \E u \in Users : DisconnectMove(u)
  \/ \E u \in Users : DisconnectRemove(u)
  \/ \E u \in Users : DisconnectClose(u)
  \/ Reaper

Spec == Init /\ [][Next]_vars

\* ------------------------------------------------------------- shutdown
\* main on SIGINT/SIGTERM: userPool.Shutdown() cancels the pool's context,
\* which ends cleanupInactiveConnections
PoolShutdown ==
  /\ main = "serving"
  /\ main' = "stopping"
  /\ UNCHANGED <<poolVars, conn, frames, pc, partner, room, reqs, clock,
                 reaped, hist, lim, cur, nread, hb, again, snap, now,
                 nextTick, LastPing, wsConnections, maxWSConnPerIP, ret>>

\* main: server.Shutdown(shutdownCtx) closes the listener and the idle HTTP
\* connections; it neither closes nor waits for the hijacked connections of
\* the WebSocket sessions.  main then returns and the process ends.
ServerShutdown ==
  /\ main = "stopping"
  /\ main' = "exited"
  /\ UNCHANGED <<poolVars, conn, frames, pc, partner, room, reqs, clock,
                 reaped, hist, lim, cur, nread, hb, again, snap, now,
                 nextTick, LastPing, wsConnections, maxWSConnPerIP, ret>>

\* The shutdown runs: sessions are accepted while the listener is open, one
\* find_match is read, MaxExits read loops end, the reaper finds at most
\* MaxIdle users idle, no write fails on an open connection; main shuts
\* down at any point and nothing runs after it has returned.
ShutLim == [reqs |-> 1, idle |-> MaxIdle, down |-> 0, exits |-> MaxExits,
            msgs |-> 0, pings |-> 0]

InitShutdown == Start(ShutLim, {})

NextShutdown ==
  \/ \E u \in Users : main # "exited" /\ HandleWebSocket(u)
  \/ \E u \in Users : main # "exited" /\ RecvFindMatch(u)
  \/ \E u \in Users : main # "exited" /\ FindMatchCreate(u)
  \/ \E u \in Users : main # "exited" /\ FindMatchNotify(u)
  \/ \E u \in Users : main # "exited" /\ FindMatchNotifyPartner(u)
  \/ \E u \in Users : main # "exited" /\ ReadLoopExit(u)
  \/ \E u \in Users : main # "exited" /\ DisconnectFind(u)
  \/ \E u \in Users : main # "exited" /\ DisconnectNotify(u)
  \/ \E u \in Users : main # "exited" /\ DisconnectMove(u)
  \/ \E u \in Users : main # "exited" /\ DisconnectRemove(u)
  \/ \E u \in Users : main # "exited" /\ DisconnectClose(u)
  \/ Reaper
  \/ PoolShutdown
  \/ ServerShutdown

SpecShutdown == InitShutdown /\ [][NextShutdown]_vars

\* ------------------------------------------------------------ validation
Contains(str, sub) == \E i \in 1..Len(str) : str[i] = sub

HasPrefix(str, sub) == Len(str) > 0 /\ str[1] = sub

\* the validation of a session description without the test of its type
validateSDPAnyType(payload, expected) ==
  IF ~payload.isMap THEN <<"payload must be a JSON object">>
  ELSE IF payload.sdp.tag = "absent"
  THEN <<"missing 'sdp' field in payload">>
  ELSE IF payload.sdp.tag # "str" THEN <<"SDP must be a string">>
  ELSE IF Len(payload.sdp.val) = 0 THEN <<"SDP cannot be empty">>
  ELSE IF ~HasPrefix(payload.sdp.val, "v=0")
  THEN <<"SDP must start with 'v=0'">>
  ELSE IF ~Contains(payload.sdp.val, "o=")
  THEN <<"SDP missing required line starting with", "o=">>
  ELSE IF ~Contains(payload.sdp.val, "s=")
  THEN <<"SDP missing required line starting with", "s=">>
  ELSE IF ~Contains(payload.sdp.val, "t=")
  THEN <<"SDP missing required line starting with", "t=">>
  ELSE IF /\ ~Contains(payload.sdp.val, "m=audio")
          /\ ~Contains(payload.sdp.val, "m=application")
  THEN <<"SDP must contain at least one media line">>
  ELSE << >>

\* validateSDPOfferDetailed / validateSDPAnswerDetailed, which differ in
\* the type they expect: the reason of the rejection, << >> when accepted
validateSDPDetailed(payload, expected) ==
  IF ~payload.isMap THEN <<"payload must be a JSON object">>
  ELSE IF payload.sdp.tag = "absent"
  THEN <<"missing 'sdp' field in payload">>
  ELSE IF payload.sdp.tag # "str" THEN <<"SDP must be a string">>
  ELSE IF Len(payload.sdp.val) = 0 THEN <<"SDP cannot be empty">>
  ELSE IF payload.type.tag = "str" /\ payload.type.val # <<expected>>
  THEN <<"expected type", expected, "got", payload.type.val>>
  ELSE IF ~HasPrefix(payload.sdp.val, "v=0")
  THEN <<"SDP must start with 'v=0'">>
  ELSE IF ~Contains(payload.sdp.val, "o=")
  THEN <<"SDP missing required line starting with", "o=">>
  ELSE IF ~Contains(payload.sdp.val, "s=")
  THEN <<"SDP missing required line starting with", "s=">>
  ELSE IF ~Contains(payload.sdp.val, "t=")
  THEN <<"SDP missing required line starting with", "t=">>
  ELSE IF /\ ~Contains(payload.sdp.val, "m=audio")
          /\ ~Contains(payload.sdp.val, "m=application")
  THEN <<"SDP must contain at least one media line">>
  ELSE << >>

validateSDPOfferDetailed(payload) == validateSDPDetailed(payload, "offer")

validateSDPAnswerDetailed(payload) == validateSDPDetailed(payload, "answer")

validateICECandidateDetailed(payload) ==
  IF ~payload.isMap THEN <<"payload must be a JSON object">>
  ELSE IF payload.candidate.tag = "absent"
  THEN <<"missing 'candidate' field in payload">>
  ELSE IF payload.candidate.tag # "str" THEN <<"candidate must be a string">>
  ELSE IF Len(payload.candidate.val) = 0 THEN <<"candidate cannot be empty">>
  ELSE IF ~Contains(payload.candidate.val, "candidate:")
  THEN <<"candidate must contain 'candidate:' prefix">>
  ELSE IF payload.sdpMLineIndex.tag \notin {"absent", "num"}
  THEN <<"sdpMLineIndex must be a number">>
  ELSE IF payload.sdpMid.tag \notin {"absent", "str"}
  THEN <<"sdpMid must be a string">>
  ELSE << >>

\* the text the handler of a relay frame hands to sendError when the
\* payload is rejected, << >> when the payload is accepted
Rejection(type, payload) ==
  CASE type = "offer" ->
         IF validateSDPOfferDetailed(payload) = << >> THEN << >>
         ELSE <<"Invalid SDP offer format">> \o validateSDPOfferDetailed(payload)
    [] type = "answer" ->
         IF validateSDPAnswerDetailed(payload) = << >> THEN << >>
         ELSE <<"Invalid SDP answer format">>
                \o validateSDPAnswerDetailed(payload)
    [] type = "ice_candidate" ->
         IF validateICECandidateDetailed(payload) = << >> THEN << >>
         ELSE <<"Invalid ICE candidate format">>

\* ----------------------------------------------------------------- relay
\* the payloads the clients of the relay runs send
OfferSdp == Payload(TRUE, Str(<<"v=0", "o=", "s=", "t=", "m=audio">>),
                    Str(<<"offer">>), Missing, Missing, Missing)

AnswerSdp == Payload(TRUE, Str(<<"v=0", "o=", "s=", "t=", "m=application">>),
                     Str(<<"answer">>), Missing, Missing, Missing)

NoMediaSdp == Payload(TRUE, Str(<<"v=0", "o=", "s=", "t=">>),
                      Missing, Missing, Missing, Missing)

Candidate == Payload(TRUE, Missing, Missing, Str(<<"candidate:", "1">>),
                     Num, Str(<<"0">>))

BadCandidate == Payload(TRUE, Missing, Missing, Str(<<"1">>), Num, Missing)

\* a session description with an ill-formed escape in an attribute line
SurrogateSdp ==
  Payload(TRUE, Str(<<"v=0", "o=", "s=", "t=", "m=audio", "\\ud800">>),
          Str(<<"offer">>), Missing, Missing, Missing)

RelayInputs ==
  {[type |-> "offer", payload |-> OfferSdp],
   [type |-> "offer", payload |-> SurrogateSdp],
   [type |-> "offer", payload |-> AnswerSdp],
   [type |-> "answer", payload |-> AnswerSdp],
   [type |-> "answer", payload |-> NoMediaSdp],
   [type |-> "ice_candidate", payload |-> Candidate],
   [type |-> "ice_candidate", payload |-> BadCandidate]}

\* the from and to a client may put in a frame: nothing, or a user's id
ClientIds == {NoUser, 1}

RECURSIVE SumOver(_, _)
SumOver(f, S) ==
  IF S = {} THEN 0
  ELSE LET x == CHOOSE y \in S : TRUE IN f[x] + SumOver(f, S \ {x})

\* handleUserMessages: an offer, answer or ice_candidate frame is read, with
\* whatever from and to the client put in it; UpdatePing, msg.From = user.ID
\* and the handler's validation of the payload.
RecvRelay(u) ==
  /\ pc[u] = "reading"
  /\ conn[u].IsActive /\ conn[u].up
  /\ SumOver(nread, Users) < lim.msgs
  /\ nread' = [nread EXCEPT ![u] = @ + 1]
  /\ \E in \in RelayInputs, from, to \in ClientIds :
       LET read == Msg(in.type, in.payload, from, to)
           msg  == [read EXCEPT !.from = u, !.seq = nread[u] + 1]
       IN
       IF Rejection(msg.type, msg.payload) # << >>
       THEN /\ cur' = [cur EXCEPT ![u] =
                         [msg EXCEPT !.error = Rejection(msg.type, msg.payload)]]
            /\ pc' = [pc EXCEPT ![u] = "rl_error"]
       ELSE /\ cur' = [cur EXCEPT ![u] = msg]
            /\ pc' = [pc EXCEPT ![u] = "rl_find"]
  /\ LastPing' = [LastPing EXCEPT ![u] = now]
  /\ UNCHANGED <<poolVars, conn, frames, partner, room, reqs, clock, reaped,
                 hist, lim, aux, now, nextTick, hb, again, snap>>

\* handleWebRTCOffer / handleWebRTCAnswer / handleICECandidate:
\* partner := FindPartner(user.ID); without a partner a candidate is dropped
\* and an offer or answer is answered with an error
RelayFind(u) ==
  /\ pc[u] = "rl_find"
  /\ IF FindPartner(u) = NoUser
     THEN IF cur[u].type = "ice_candidate"
          THEN /\ pc' = [pc EXCEPT ![u] = "reading"]
               /\ cur' = [cur EXCEPT ![u] = NoMsg]
          ELSE /\ pc' = [pc EXCEPT ![u] = "rl_error"]
               /\ cur' = [cur EXCEPT ![u].error =
                            <<"No partner found for WebRTC", cur[u].type>>]
     ELSE /\ pc' = [pc EXCEPT ![u] = IF cur[u].type = "ice_candidate"
                                     THEN "rl_write" ELSE "rl_set"]
          /\ cur' = cur
  /\ partner' = [partner EXCEPT ![u] = FindPartner(u)]
  /\ UNCHANGED <<poolVars, conn, frames, room, reqs, clock, reaped, hist,
                 lim, aux, now, nextTick, LastPing, nread, hb, again, snap>>

\* handleWebRTCOffer: both call states become ringing.  handleWebRTCAnswer:
\* both become answered and, when user.RoomID names a room of Rooms, the
\* room's call state becomes answered and its StartedAt the current time.
RelaySet(u) ==
  /\ pc[u] = "rl_set"
  /\ IF cur[u].type = "offer"
     THEN /\ users' = [users EXCEPT ![u].CallState = "ringing",
                                    ![partner[u]].CallState = "ringing"]
          /\ Rooms' = Rooms
     ELSE /\ users' = [users EXCEPT ![u].CallState = "answered",
                                    ![partner[u]].CallState = "answered"]
          /\ Rooms' = IF /\ users[u].RoomID # NoRoom
                         /\ users[u].RoomID \in DOMAIN Rooms
                      THEN [Rooms EXCEPT
                              ![users[u].RoomID].CallState = "answered",
                              ![users[u].RoomID].StartedAt = clock]
                      ELSE Rooms
  /\ pc' = [pc EXCEPT ![u] = "rl_write"]
  /\ UNCHANGED <<WaitingUsers, ActiveUsers, UserRooms, conn, frames, partner,
                 room, reqs, clock, reaped, hist, ext>>

\* msg.To = partner.ID; msg.From = user.ID; partner.Connection.WriteJSON(msg);
\* a failed write of an offer or answer is answered with an error
RelayWrite(u) ==
  /\ pc[u] = "rl_write"
  /\ \E ok \in BOOLEAN :
       /\ WriteJSON(partner[u],
                    Relayed([cur[u] EXCEPT !.to = partner[u], !.from = u]), ok)
       /\ IF ok \/ cur[u].type = "ice_candidate"
          THEN /\ pc' = [pc EXCEPT ![u] = "reading"]
               /\ cur' = [cur EXCEPT ![u] = NoMsg]
          ELSE /\ pc' = [pc EXCEPT ![u] = "rl_error"]
               /\ cur' = [cur EXCEPT ![u].error =
                            <<"Failed to forward", cur[u].type>>]
  /\ partner' = [partner EXCEPT ![u] = NoUser]
  /\ UNCHANGED <<poolVars, room, reqs, clock, reaped, hist, lim, aux, now, nextTick, LastPing, nread, hb,
                 again, snap>>

\* sendError(user, message), after which the handler returns
RelayError(u) ==
  /\ pc[u] = "rl_error"
  /\ \E ok \in BOOLEAN : WriteJSON(u, ErrorFrame(cur[u].error), ok)
  /\ pc' = [pc EXCEPT ![u] = "reading"]
  /\ cur' = [cur EXCEPT ![u] = NoMsg]
  /\ UNCHANGED <<poolVars, partner, room, reqs, clock, reaped, hist, lim, aux, now, nextTick, LastPing,
                 nread, hb, again, snap>>

\* ------------------------------------------- the validation on its own
\* the lines a session description of the validation runs is made of, in
\* their order; the last stands for an attribute line of MaxSDPSize bytes
SdpLines == <<"v=0", "o=", "s=", "t=", "m=audio", "m=application", "a=pad">>

\* the bytes of a line, its line break included
Bytes(line) ==
  CASE line = "a=pad"         -> MaxSDPSize
    [] line = "m=application" -> 14
    [] line = "m=audio"       -> 8
    [] line = "v=0"           -> 4
    [] OTHER                  -> 3

RECURSIVE Size(_)
Size(str) == IF str = << >> THEN 0 ELSE Bytes(Head(str)) + Size(Tail(str))

\* the lines of SdpLines at the positions of S, in their order
RECURSIVE Pick(_, _)
Pick(S, i) ==
  IF i > Len(SdpLines) THEN << >>
  ELSE (IF i \in S THEN <<SdpLines[i]>> ELSE << >>) \o Pick(S, i + 1)

SdpValues ==
  {Missing, Num} \cup {Str(Pick(S, 1)) : S \in SUBSET (1..Len(SdpLines))}

TypeValues ==
  {Missing, Num, Str(<<"offer">>), Str(<<"answer">>), Str(<<"pranswer">>)}

\* offer and answer frames with every payload of these values, and with a
\* payload that is no JSON object
SdpInputs ==
  {[type |-> t, payload |-> NoPayload] : t \in {"offer", "answer"}}
  \cup {[type |-> t,
          payload |-> Payload(TRUE, sdp, type, Missing, Missing, Missing)] :
          t \in {"offer", "answer"}, sdp \in SdpValues, type \in TypeValues}

\* handleUserMessages reading an offer or answer frame of SdpInputs; the
\* handler validates the payload first
RecvSdp(u) ==
  /\ pc[u] = "reading"
  /\ conn[u].IsActive /\ conn[u].up
  /\ SumOver(nread, Users) < lim.msgs
  /\ nread' = [nread EXCEPT ![u] = @ + 1]
  /\ \E in \in SdpInputs :
       LET read == Msg(in.type, in.payload, NoUser, NoUser)
           msg  == [read EXCEPT !.from = u, !.seq = nread[u] + 1]
       IN
       IF Rejection(msg.type, msg.payload) # << >>
       THEN /\ cur' = [cur EXCEPT ![u] =
                         [msg EXCEPT !.error = Rejection(msg.type, msg.payload)]]
            /\ pc' = [pc EXCEPT ![u] = "rl_error"]
       ELSE /\ cur' = [cur EXCEPT ![u] = msg]
            /\ pc' = [pc EXCEPT ![u] = "rl_find"]
  /\ LastPing' = [LastPing EXCEPT ![u] = now]
  /\ UNCHANGED <<poolVars, conn, frames, partner, room, reqs, clock, reaped,
                 hist, lim, aux, now, nextTick, hb, again, snap>>

\* The validation runs: user 1 is connected and sends one offer or answer
\* frame; the handler is followed to the end of its validation.
ValidateLim == [reqs |-> 0, idle |-> 0, down |-> 0, exits |-> 0,
                msgs |-> 1, pings |-> 0]

InitValidate == Start(ValidateLim, {1})

NextValidate == \E u \in Users : RecvSdp(u)

SpecValidate == InitValidate /\ [][NextValidate]_vars

\* ------------------------------------------------------------- heartbeat
IsPing(f) == f.type = "ping"

RECURSIVE Pings(_)
Pings(S) ==
  IF S = {} THEN 0
  ELSE LET x == CHOOSE y \in S : TRUE
       IN Len(SelectSeq(frames[x], IsPing)) + Pings(S \ {x})

\* handleHeartbeat, one tick: return when the connection is not active,
\* else write a ping.  conn.IsActive is read without the connection's
\* mutex, so on a connection that was just closed the read may still see
\* true; WriteJSON then fails under the mutex and the heartbeat closes the
\* connection again.
Heartbeat(u) ==
  /\ hb[u] = "run"
  /\ IF ~conn[u].IsActive
     THEN /\ hb' = [hb EXCEPT ![u] = "exit"]
             \/ hb' = [hb EXCEPT ![u] = "close"]
          /\ UNCHANGED <<conn, frames>>
     ELSE /\ Pings(Users) < lim.pings
          /\ \E ok \in BOOLEAN :
               /\ WriteJSON(u, Frame("ping", NoUser, NoRoom, ""), ok)
               /\ hb' = [hb EXCEPT ![u] = IF ok THEN "run" ELSE "close"]
  /\ UNCHANGED <<poolVars, pc, partner, room, reqs, clock, reaped, hist, lim, aux, now, nextTick, LastPing,
                 cur, nread, again, snap>>

\* handleHeartbeat after a failed write: conn.Close() and return
HeartbeatClose(u) ==
  /\ hb[u] = "close"
  /\ conn' = Close(conn, u)
  /\ hb' = [hb EXCEPT ![u] = "exit"]
  /\ UNCHANGED <<poolVars, frames, pc, partner, room, reqs, clock, reaped,
                 hist, lim, aux, now, nextTick, LastPing, cur, nread, again, snap>>

\* The relay runs: all users are connected and waiting; one find_match and
\* MaxMsgs relay frames are read and MaxExits read loops end.  A write fails
\* only on a closed connection and the reaper finds nobody idle.
RelayLim == [reqs |-> 1, idle |-> 0, down |-> 0, exits |-> MaxExits,
             msgs |-> MaxMsgs, pings |-> 0]

InitRelay == Start(RelayLim, Users)

NextRelay ==
  \/ \E u \in Users : RecvFindMatch(u)
  \/ \E u \in Users : FindMatchCreate(u)
  \/ \E u \in Users : FindMatchNotify(u)
  \/ \E u \in Users : FindMatchNotifyPartner(u)
  \/ \E u \in Users : RecvRelay(u)
  \/ \E u \in Users : RelayFind(u)
  \/ \E u \in Users : RelaySet(u)
  \/ \E u \in Users : RelayWrite(u)
  \/ \E u \in Users : RelayError(u)
  \/ \E u \in Users : ReadLoopExit(u)
  \/ \E u \in Users : DisconnectFind(u)
  \/ \E u \in Users : DisconnectNotify(u)
  \/ \E u \in Users : DisconnectMove(u)
  \/ \E u \in Users : DisconnectRemove(u)
  \/ \E u \in Users : DisconnectClose(u)

SpecRelay == InitRelay /\ [][NextRelay]_vars

\* The heartbeat runs: sessions are accepted, one find_match is read, the
\* heartbeats write MaxPings pings, and channels fail, read loops end and
\* the reaper runs within the budgets of Lim.
BeatLim == [reqs |-> 1, idle |-> MaxIdle, down |-> MaxDown,
            exits |-> MaxExits, msgs |-> 0, pings |-> MaxPings]

InitBeat == Start(BeatLim, {})

NextBeat ==
  \/ \E u \in Users : HandleWebSocket(u)
  \/ \E u \in Users : RecvFindMatch(u)
  \/ \E u \in Users : FindMatchCreate(u)
  \/ \E u \in Users : FindMatchNotify(u)
  \/ \E u \in Users : FindMatchNotifyPartner(u)
  \/ \E u \in Users : Heartbeat(u)
  \/ \E u \in Users : HeartbeatClose(u)
  \/ \E u \in Users : ReadLoopExit(u)
  \/ \E u \in Users : DisconnectFind(u)
  \/ \E u \in Users : DisconnectNotify(u)
  \/ \E u \in Users : DisconnectMove(u)
  \/ \E u \in Users : DisconnectRemove(u)
  \/ \E u \in Users : DisconnectClose(u)
  \/ Reaper

SpecBeat == InitBeat /\ [][NextBeat]_vars

\* The heartbeat runs under fair scheduling.  Users 1 and 2 are connected
\* and waiting and one find_match is read.  The server's own steps are weakly
\* fair: a handler that has started runs to its end, the ticker of a running
\* heartbeat fires, a read on a closed channel returns.  What the clients
\* do (send find_match, go away) is not.
LiveLim == [reqs |-> 1, idle |-> 0, down |-> MaxDown, exits |-> MaxExits,
            msgs |-> 0, pings |-> MaxPings]

\* the users that are connected in the fair runs
LiveUsers == {1, 2}

InitLive == Start(LiveLim, LiveUsers)

\* the steps of u's read loop and teardown the server takes by itself
SessionStep(u) ==
  \/ FindMatchCreate(u)
  \/ FindMatchNotify(u)
  \/ FindMatchNotifyPartner(u)
  \/ ReadLoopClosed(u)
  \/ DisconnectFind(u)
  \/ DisconnectNotify(u)
  \/ DisconnectMove(u)
  \/ DisconnectRemove(u)
  \/ DisconnectClose(u)

\* the steps of u's heartbeat goroutine
HeartbeatStep(u) ==
  \/ Heartbeat(u)
  \/ HeartbeatClose(u)

NextLive ==
  \/ \E u \in Users : RecvFindMatch(u)
  \/ \E u \in Users : ReadLoopExit(u)
  \/ \E u \in Users : SessionStep(u)
  \/ \E u \in Users : HeartbeatStep(u)

FairLive ==
  \A u \in Users : WF_vars(SessionStep(u)) /\ WF_vars(HeartbeatStep(u))

SpecLive == InitLive /\ [][NextLive]_vars /\ FairLive

\* ------------------------------------------- teardown invoked twice
\* handleDisconnect(user) is called a second time as soon as its first call
\* has returned; the second call runs with no step of another task between
\* its steps.  No channel fails and the reaper finds nobody idle.
TwiceLim == [reqs |-> MaxReqs, idle |-> 0, down |-> 0, exits |-> MaxExits,
             msgs |-> 0, pings |-> 0]

InitTwice == Start(TwiceLim, {})

DisconnectAgain(u) ==
  /\ pc[u] = "done"
  /\ ~again[u]
  /\ again' = [again EXCEPT ![u] = TRUE]
  /\ snap' = <<WaitingUsers, ActiveUsers, Rooms, UserRooms, users, frames>>
  /\ pc' = [pc EXCEPT ![u] = "dc_find"]
  /\ UNCHANGED <<poolVars, conn, frames, partner, room, reqs, clock, reaped,
                 hist, lim, aux, now, nextTick, LastPing, cur, nread, hb>>

\* no other session is between the return of its first handleDisconnect and
\* the return of its second
Alone(u) ==
  \A v \in Users \ {u} : (pc[v] = "done") <=> again[v]

NextTwice ==
  \/ \E u \in Users : Alone(u) /\ HandleWebSocket(u)
  \/ \E u \in Users : Alone(u) /\ RecvFindMatch(u)
  \/ \E u \in Users : Alone(u) /\ FindMatchCreate(u)
  \/ \E u \in Users : Alone(u) /\ FindMatchNotify(u)
  \/ \E u \in Users : Alone(u) /\ FindMatchNotifyPartner(u)
  \/ \E u \in Users : Alone(u) /\ ReadLoopExit(u)
  \/ \E u \in Users : (again[u] \/ Alone(u)) /\ DisconnectFind(u)
  \/ \E u \in Users : (again[u] \/ Alone(u)) /\ DisconnectNotify(u)
  \/ \E u \in Users : (again[u] \/ Alone(u)) /\ DisconnectMove(u)
  \/ \E u \in Users : (again[u] \/ Alone(u)) /\ DisconnectRemove(u)
  \/ \E u \in Users : (again[u] \/ Alone(u)) /\ DisconnectClose(u)
  \/ \E u \in Users : DisconnectAgain(u)

SpecTwice == InitTwice /\ [][NextTwice]_vars

\* ------------------------------------------------ the find_match race
\* All NumUsers users are connected and waiting; each find_match frame the
\* server reads is handled by handleFindMatch, the handlers of different
\* sessions interleaving at every lock acquisition.  No channel fails, no
\* session ends and the reaper finds nobody idle.
RaceLim == [reqs |-> NumUsers, idle |-> 0, down |-> 0, exits |-> 0,
            msgs |-> 0, pings |-> 0]

InitRace == Start(RaceLim, Users)

NextRace ==
  \/ \E u \in Users : RecvFindMatch(u)
  \/ \E u \in Users : FindMatchCreate(u)
  \/ \E u \in Users : FindMatchNotify(u)
  \/ \E u \in Users : FindMatchNotifyPartner(u)

SpecRace == InitRace /\ [][NextRace]_vars

\* ------------------------------------------------------ the reaper in time
\* Time passes in units of 15 seconds.  It cannot pass the moment the
\* ticker of cleanupInactiveConnections fires before performCleanup has run,
\* nor the read deadline of a session blocked in ReadJSON before that read
\* has returned (with a frame or with the timeout error).
Advance ==
  /\ now < MaxTime
  /\ now < nextTick
  /\ \A u \in Users :
       (pc[u] = "reading" /\ conn[u].IsActive /\ conn[u].up)
       => now < LastPing[u] + Deadline
  /\ now' = now + 1
  /\ UNCHANGED <<poolVars, conn, frames, pc, partner, room, reqs, clock,
                 reaped, hist, lim, aux, cur, nread, hb, again, snap, nextTick,
                 LastPing>>

\* handleUserMessages: a pong frame is read (UpdatePing, new read deadline)
RecvPong(u) ==
  /\ pc[u] = "reading"
  /\ conn[u].IsActive /\ conn[u].up
  /\ LastPing' = [LastPing EXCEPT ![u] = now]
  /\ UNCHANGED <<poolVars, conn, frames, pc, partner, room, reqs, clock,
                 reaped, hist, lim, aux, cur, nread, hb, again, snap, now,
                 nextTick>>

\* the users performCleanup finds with a LastPing before the cutoff
Stale == {u \in WaitingUsers \cup ActiveUsers : LastPing[u] < now - Cutoff}

\* the ticker of cleanupInactiveConnections fires: performCleanup
ReaperTick ==
  /\ main = "serving"
  /\ now = nextTick
  /\ nextTick' = nextTick + Period
  /\ performCleanup(Stale)
  /\ reaped' = reaped \cup Stale
  /\ reapedWith' = [u \in Users |->
                      IF u \in Stale /\ SessionAlive(u) THEN PairedWith(u)
                      ELSE reapedWith[u]]
  /\ UNCHANGED <<frames, pc, partner, room, reqs, clock, roomLog, endedWith,
                 lim, aux, cur, nread, hb, again, snap, now, LastPing>>

ReapLim == [reqs |-> 1, idle |-> 0, down |-> 0, exits |-> MaxExits,
            msgs |-> 0, pings |-> 0]

\* two sessions have been accepted when the pool starts its ticker
InitReap == Start(ReapLim, {1, 2})

NextReap ==
  \/ \E u \in Users : RecvFindMatch(u)
  \/ \E u \in Users : FindMatchCreate(u)
  \/ \E u \in Users : FindMatchNotify(u)
  \/ \E u \in Users : FindMatchNotifyPartner(u)
  \/ \E u \in Users : RecvPong(u)
  \/ \E u \in Users : ReadLoopExit(u)
  \/ \E u \in Users : DisconnectFind(u)
  \/ \E u \in Users : DisconnectNotify(u)
  \/ \E u \in Users : DisconnectMove(u)
  \/ \E u \in Users : DisconnectRemove(u)
  \/ \E u \in Users : DisconnectClose(u)
  \/ Advance
  \/ ReaperTick

SpecReap == InitReap /\ [][NextReap]_vars

\* ------------------------------------ the dispatch of the other frames
\* the frame types whose case in handleUserMessages calls no handler:
\* pong, disconnect, and a type no case names
OtherTypes == {"pong", "unknown", "disconnect"}

\* the read loop going on after any of these frames, disconnect included
DispatchContinues(u) ==
  /\ pc[u] = "reading"
  /\ conn[u].IsActive /\ conn[u].up
  /\ SumOver(nread, Users) < lim.msgs
  /\ nread' = [nread EXCEPT ![u] = @ + 1]
  /\ \E type \in OtherTypes :
       cur' = [cur EXCEPT ![u] =
                 [Msg(type, NoPayload, NoUser, NoUser) EXCEPT
                    !.from = u, !.seq = nread[u] + 1]]
  /\ LastPing' = [LastPing EXCEPT ![u] = now]
  /\ UNCHANGED <<poolVars, conn, frames, pc, partner, room, reqs, clock,
                 reaped, hist, lim, aux, now, nextTick, hb, again, snap>>

\* handleUserMessages: a pong, a disconnect or an unknown frame is read
\* (UpdatePing, msg.From = user.ID).  pong: continue; unknown: logged, next
\* iteration; disconnect: return, and HandleWebSocket calls handleDisconnect.
Dispatch(u) ==
  /\ pc[u] = "reading"
  /\ conn[u].IsActive /\ conn[u].up
  /\ SumOver(nread, Users) < lim.msgs
  /\ nread' = [nread EXCEPT ![u] = @ + 1]
  /\ \E type \in OtherTypes :
       /\ cur' = [cur EXCEPT ![u] =
                    [Msg(type, NoPayload, NoUser, NoUser) EXCEPT
                       !.from = u, !.seq = nread[u] + 1]]
       /\ IF type = "disconnect"
          THEN /\ pc' = [pc EXCEPT ![u] = "dc_find"]
               /\ endedWith' = [endedWith EXCEPT ![u] = PairedWith(u)]
          ELSE UNCHANGED <<pc, endedWith>>
  /\ LastPing' = [LastPing EXCEPT ![u] = now]
  /\ UNCHANGED <<poolVars, conn, frames, partner, room, reqs, clock, reaped,
                 roomLog, reapedWith, lim, aux, now, nextTick, hb, again,
                 snap>>

\* The dispatch runs: all users are connected and waiting; one find_match
\* and MaxMsgs other frames are read; no write fails on an open connection.
\* The reaper's ticker does not fire, so the runs end within its first
\* period.
DispatchLim == [reqs |-> 1, idle |-> 0, down |-> 0, exits |-> 0,
                msgs |-> MaxMsgs, pings |-> 0]

InitDispatch == Start(DispatchLim, Users)

NextDispatch ==
  \/ \E u \in Users : RecvFindMatch(u)
  \/ \E u \in Users : FindMatchCreate(u)
  \/ \E u \in Users : FindMatchNotify(u)
  \/ \E u \in Users : FindMatchNotifyPartner(u)
  \/ \E u \in Users : Dispatch(u)
  \/ \E u \in Users : DisconnectFind(u)
  \/ \E u \in Users : DisconnectNotify(u)
  \/ \E u \in Users : DisconnectMove(u)
  \/ \E u \in Users : DisconnectRemove(u)
  \/ \E u \in Users : DisconnectClose(u)
  \/ Advance

SpecDispatch == InitDispatch /\ [][NextDispatch]_vars

\* ------------------------------------------------ the pool used directly
\* TestSignalingServer_ConcurrentOperations / TestUserPool_ConcurrentAccess:
\* goroutines add the users of PoolUsers to a new pool; when all have
\* returned, one goroutine for each pair (1,2), (3,4), .. looks both users up
\* and calls CreateRoom.  The last user belongs to no pair.
PoolUsers == 1..(2 * NumPairs + 1)

GetUser(userID) ==
  IF userID \in WaitingUsers \cup ActiveUsers THEN userID ELSE NoUser

InitPairs ==
  /\ NewRateLimiter(DefaultMaxWSConnPerIP)
  /\ main = "serving"
  /\ lim = Lim
  /\ cur = [u \in Users |-> NoMsg]
  /\ nread = [u \in Users |-> 0]
  /\ hb = [u \in Users |-> "none"]
  /\ again = [u \in Users |-> FALSE]
  /\ snap = << >>
  /\ WaitingUsers = {}
  /\ ActiveUsers = {}
  /\ Rooms = << >>
  /\ UserRooms = << >>
  /\ users = [u \in PoolUsers |-> [Status |-> "", PartnerID |-> NoUser,
                                   RoomID |-> NoRoom, CallState |-> ""]]
  /\ conn = [u \in Users |-> [IsActive |-> TRUE, up |-> TRUE, closes |-> 0]]
  /\ frames = [u \in Users |-> << >>]
  /\ pc = [u \in PoolUsers |-> "new"]
  /\ partner = [u \in Users |-> NoUser]
  /\ room = [u \in Users |-> NoRoom]
  /\ reqs = 0
  /\ clock = 0
  /\ reaped = {}
  /\ roomLog = << >>
  /\ endedWith = [u \in Users |-> NoUser]
  /\ reapedWith = [u \in Users |-> NoUser]
  /\ now = 0
  /\ nextTick = Period
  /\ LastPing = [u \in Users |-> 0]

\* a goroutine of the first phase: AddWaitingUser(user)
TestAddWaitingUser(u) ==
  /\ pc[u] = "new"
  /\ AddWaitingUser(u)
  /\ pc' = [pc EXCEPT ![u] = "added"]
  /\ UNCHANGED <<conn, frames, partner, room, reqs, clock, reaped, hist, ext>>

\* a goroutine of the second phase, started after wg.Wait(): GetUser of
\* both users of pair i, then CreateRoom when both are found
TestCreateRoom(i) ==
  LET user1 == 2 * i - 1
      user2 == 2 * i
  IN
  /\ \A u \in PoolUsers : pc[u] # "new"
  /\ pc[user1] = "added"
  /\ IF GetUser(user1) # NoUser /\ GetUser(user2) # NoUser
     THEN \E t \in {clock, clock + 1} :
            /\ t >= 1
            /\ clock' = t
            /\ CreateRoom(user1, user2, generateRoomID(t))
     ELSE UNCHANGED <<poolVars, clock>>
  /\ pc' = [pc EXCEPT ![user1] = "roomed", ![user2] = "roomed"]
  /\ UNCHANGED <<conn, frames, partner, room, reqs, reaped, hist, ext>>

NextPairs ==
  \/ \E u \in PoolUsers : TestAddWaitingUser(u)
  \/ \E i \in 1..NumPairs : TestCreateRoom(i)

SpecPairs == InitPairs /\ [][NextPairs]_vars

\* TestUserPool_RemoveUser / TestSignalingServer_EdgeCases: RemoveUser is
\* called on the pool directly, at most twice for each id, for users that are
\* waiting, paired or were never added
TestRemoveUser(u) ==
  /\ pc[u] \in {"new", "added", "roomed", "removed"}
  /\ RemoveUser(u)
  /\ pc' = [pc EXCEPT ![u] = IF pc[u] = "removed" THEN "removed again"
                                ELSE "removed"]
  /\ UNCHANGED <<conn, frames, partner, room, reqs, clock, reaped, hist, ext>>

NextRemove ==
  \/ \E u \in PoolUsers : TestAddWaitingUser(u)
  \/ \E i \in 1..NumPairs : TestCreateRoom(i)
  \/ \E u \in PoolUsers : TestRemoveUser(u)

SpecRemove == InitPairs /\ [][NextRemove]_vars

\* ----------------------------------------------------------- rate limiter
Sources == 1..NumSources

\* rl.wsConnections[ip], zero for a key the map does not hold
Connections(m, ip) == IF ip \in DOMAIN m THEN m[ip] ELSE 0

\* CheckWebSocketConnection with > for >= in the test of the cap
CheckWebSocketConnectionOver(ip) ==
  LET currentConnections == Connections(wsConnections, ip) IN
  /\ IF currentConnections > maxWSConnPerIP
     THEN /\ ret' = [op |-> "check", ip |-> ip, ok |-> FALSE]
          /\ wsConnections' = wsConnections
     ELSE /\ ret' = [op |-> "check", ip |-> ip, ok |-> TRUE]
          /\ wsConnections' =
               [i \in DOMAIN wsConnections \cup {ip} |->
                  IF i = ip THEN currentConnections + 1 ELSE wsConnections[i]]
  /\ UNCHANGED <<poolVars, conn, frames, pc, partner, room, reqs, clock,
                 reaped, hist, lim, cur, nread, hb, again, snap, now,
                 nextTick, LastPing, maxWSConnPerIP, main>>

CheckWebSocketConnection(ip) ==
  LET currentConnections == Connections(wsConnections, ip) IN
  /\ IF currentConnections >= maxWSConnPerIP
     THEN /\ ret' = [op |-> "check", ip |-> ip, ok |-> FALSE]
          /\ wsConnections' = wsConnections
     ELSE /\ ret' = [op |-> "check", ip |-> ip, ok |-> TRUE]
          /\ wsConnections' =
               [i \in DOMAIN wsConnections \cup {ip} |->
                  IF i = ip THEN currentConnections + 1 ELSE wsConnections[i]]
  /\ UNCHANGED <<poolVars, conn, frames, pc, partner, room, reqs, clock,
                 reaped, hist, lim, cur, nread, hb, again, snap, now,
                 nextTick, LastPing, maxWSConnPerIP, main>>

ReleaseWebSocketConnection(ip) ==
  /\ ret' = [op |-> "release", ip |-> ip, ok |-> TRUE]
  /\ IF ip \in DOMAIN wsConnections /\ wsConnections[ip] > 0
     THEN IF wsConnections[ip] - 1 = 0
          THEN wsConnections' =
                 [i \in DOMAIN wsConnections \ {ip} |-> wsConnections[i]]
          ELSE wsConnections' = [wsConnections EXCEPT ![ip] = @ - 1]
     ELSE wsConnections' = wsConnections
  /\ UNCHANGED <<poolVars, conn, frames, pc, partner, room, reqs, clock,
                 reaped, hist, lim, cur, nread, hb, again, snap, now,
                 nextTick, LastPing, maxWSConnPerIP, main>>

\* The rate limiter alone: made with a cap of 0..MaxCap, then called with
\* any source in any order.
InitLimiter == \E cap \in 0..MaxCap : StartWith(cap, Lim, {})

NextLimiter ==
  \/ \E ip \in Sources : CheckWebSocketConnection(ip)
  \/ \E ip \in Sources : ReleaseWebSocketConnection(ip)

SpecLimiter == InitLimiter /\ [][NextLimiter]_vars

\* ---------------------------------------------------------- call control
CallTypes == {"call_start", "call_accept", "call_reject", "call_end"}

\* the notification a call-control handler writes to the partner
Notification(type) ==
  CASE type = "call_start"  -> "call_incoming"
    [] type = "call_accept" -> "call_accepted"
    [] type = "call_reject" -> "call_rejected"
    [] type = "call_end"    -> "call_ended"

\* handleUserMessages: a call_start, call_accept, call_reject or call_end
\* frame is read (UpdatePing, msg.From = user.ID)
RecvCall(u) ==
  /\ pc[u] = "reading"
  /\ conn[u].IsActive /\ conn[u].up
  /\ SumOver(nread, Users) < lim.msgs
  /\ nread' = [nread EXCEPT ![u] = @ + 1]
  /\ \E type \in CallTypes :
       cur' = [cur EXCEPT ![u] =
                 [Msg(type, NoPayload, NoUser, NoUser) EXCEPT
                    !.from = u, !.seq = nread[u] + 1]]
  /\ pc' = [pc EXCEPT ![u] = "cl_find"]
  /\ LastPing' = [LastPing EXCEPT ![u] = now]
  /\ UNCHANGED <<poolVars, conn, frames, partner, room, reqs, clock, reaped,
                 hist, lim, aux, now, nextTick, hb, again, snap>>

\* the call-control handlers going on to their assignments when there is no
\* partner, whatever the frame
CallFindAlwaysSet(u) ==
  /\ pc[u] = "cl_find"
  /\ partner' = [partner EXCEPT ![u] = FindPartner(u)]
  /\ pc' = [pc EXCEPT ![u] = IF FindPartner(u) # NoUser THEN "cl_write"
                                ELSE "cl_set"]
  /\ cur' = cur
  /\ UNCHANGED <<poolVars, conn, frames, room, reqs, clock, reaped, hist,
                 lim, aux, now, nextTick, LastPing, nread, hb, again, snap>>

\* handleCallStart / handleCallAccept / handleCallReject / handleCallEnd:
\* partner := FindPartner(user.ID).  Without a partner call_start and
\* call_accept are answered with an error, call_reject returns and call_end
\* goes on to its assignments.
CallFind(u) ==
  /\ pc[u] = "cl_find"
  /\ partner' = [partner EXCEPT ![u] = FindPartner(u)]
  /\ IF FindPartner(u) # NoUser
     THEN /\ pc' = [pc EXCEPT ![u] = "cl_write"]
          /\ cur' = cur
     ELSE CASE cur[u].type = "call_start" ->
                 /\ pc' = [pc EXCEPT ![u] = "rl_error"]
                 /\ cur' = [cur EXCEPT ![u].error =
                              <<"No partner found to start call">>]
            [] cur[u].type = "call_accept" ->
                 /\ pc' = [pc EXCEPT ![u] = "rl_error"]
                 /\ cur' = [cur EXCEPT ![u].error =
                              <<"No partner found to accept call">>]
            [] cur[u].type = "call_reject" ->
                 /\ pc' = [pc EXCEPT ![u] = "reading"]
                 /\ cur' = [cur EXCEPT ![u] = NoMsg]
            [] cur[u].type = "call_end" ->
                 /\ pc' = [pc EXCEPT ![u] = "cl_set"]
                 /\ cur' = cur
  /\ UNCHANGED <<poolVars, conn, frames, room, reqs, clock, reaped, hist,
                 lim, aux, now, nextTick, LastPing, nread, hb, again, snap>>

\* partner.Connection.WriteJSON(notification).  A failed call_incoming is
\* answered with an error, a failed call_accepted ends the handler; the
\* other two handlers go on whatever the write returned.
CallWrite(u) ==
  /\ pc[u] = "cl_write"
  /\ \E ok \in BOOLEAN :
       /\ WriteJSON(partner[u],
                    Frame(Notification(cur[u].type), u,
                          IF cur[u].type \in {"call_start", "call_accept"}
                          THEN users[u].RoomID ELSE NoRoom, ""), ok)
       /\ IF ok \/ cur[u].type \in {"call_reject", "call_end"}
          THEN /\ pc' = [pc EXCEPT ![u] = "cl_set"]
               /\ cur' = cur
          ELSE IF cur[u].type = "call_start"
          THEN /\ pc' = [pc EXCEPT ![u] = "rl_error"]
               /\ cur' = [cur EXCEPT ![u].error =
                            <<"Failed to initiate call">>]
          ELSE /\ pc' = [pc EXCEPT ![u] = "reading"]
               /\ cur' = [cur EXCEPT ![u] = NoMsg]
  /\ UNCHANGED <<poolVars, partner, room, reqs, clock, reaped, hist, lim, aux,
                 now, nextTick, LastPing, nread, hb, again, snap>>

\* the assignments of the call-control handlers.  call_start: the user's
\* call state becomes ringing; call_accept: both become answered;
\* call_reject: both become ended; call_end: the partner's, when there is
\* one, and the user's become ended and, when user.RoomID names a room of
\* Rooms, the room's call state becomes ended and its EndedAt the current
\* time.
CallSet(u) ==
  /\ pc[u] = "cl_set"
  /\ LET both(state) ==
           IF partner[u] = NoUser
           THEN [users EXCEPT ![u].CallState = state]
           ELSE [users EXCEPT ![u].CallState = state,
                              ![partner[u]].CallState = state]
     IN
     CASE cur[u].type = "call_start" ->
            /\ users' = [users EXCEPT ![u].CallState = "ringing"]
            /\ Rooms' = Rooms
       [] cur[u].type = "call_accept" ->
            /\ users' = both("answered")
            /\ Rooms' = Rooms
       [] cur[u].type = "call_reject" ->
            /\ users' = both("ended")
            /\ Rooms' = Rooms
       [] cur[u].type = "call_end" ->
            /\ users' = both("ended")
            /\ Rooms' = IF /\ users[u].RoomID # NoRoom
                           /\ users[u].RoomID \in DOMAIN Rooms
                        THEN [Rooms EXCEPT
                                ![users[u].RoomID].CallState = "ended",
                                ![users[u].RoomID].EndedAt = clock]
                        ELSE Rooms
  /\ pc' = [pc EXCEPT ![u] = "reading"]
  /\ cur' = [cur EXCEPT ![u] = NoMsg]
  /\ partner' = [partner EXCEPT ![u] = NoUser]
  /\ UNCHANGED <<WaitingUsers, ActiveUsers, UserRooms, conn, frames, room,
                 reqs, clock, reaped, hist, lim, aux, now, nextTick, LastPing,
                 nread, hb, again, snap>>

\* The call-control runs: all users are connected and waiting; one
\* find_match and MaxMsgs relay or call-control frames are read and MaxExits
\* read loops end.  A write fails only on a closed connection and the
\* reaper finds nobody idle.
CallLim == [reqs |-> 1, idle |-> 0, down |-> 0, exits |-> MaxExits,
            msgs |-> MaxMsgs, pings |-> 0]

InitCall == Start(CallLim, Users)

NextCall ==
  \/ \E u \in Users : RecvFindMatch(u)
  \/ \E u \in Users : FindMatchCreate(u)
  \/ \E u \in Users : FindMatchNotify(u)
  \/ \E u \in Users : FindMatchNotifyPartner(u)
  \/ \E u \in Users : RecvCall(u)
  \/ \E u \in Users : CallFind(u)
  \/ \E u \in Users : CallWrite(u)
  \/ \E u \in Users : CallSet(u)
  \/ \E u \in Users : RelayError(u)
  \/ \E u \in Users : ReadLoopExit(u)
  \/ \E u \in Users : DisconnectFind(u)
  \/ \E u \in Users : DisconnectNotify(u)
  \/ \E u \in Users : DisconnectMove(u)
  \/ \E u \in Users : DisconnectRemove(u)
  \/ \E u \in Users : DisconnectClose(u)

SpecCall == InitCall /\ [][NextCall]_vars

\* The runs with one signalling frame: as the call-control runs, but the one
\* frame read is an offer, an answer, a candidate or a call-control frame.
OneLim == [reqs |-> 1, idle |-> 0, down |-> 0, exits |-> MaxExits,
           msgs |-> 1, pings |-> 0]

InitOne == Start(OneLim, Users)

NextOne ==
  \/ \E u \in Users : RecvFindMatch(u)
  \/ \E u \in Users : FindMatchCreate(u)
  \/ \E u \in Users : FindMatchNotify(u)
  \/ \E u \in Users : FindMatchNotifyPartner(u)
  \/ \E u \in Users : RecvRelay(u)
  \/ \E u \in Users : RelayFind(u)
  \/ \E u \in Users : RelaySet(u)
  \/ \E u \in Users : RelayWrite(u)
  \/ \E u \in Users : RecvCall(u)
  \/ \E u \in Users : CallFind(u)
  \/ \E u \in Users : CallWrite(u)
  \/ \E u \in Users : CallSet(u)
  \/ \E u \in Users : RelayError(u)
  \/ \E u \in Users : ReadLoopExit(u)
  \/ \E u \in Users : DisconnectFind(u)
  \/ \E u \in Users : DisconnectNotify(u)
  \/ \E u \in Users : DisconnectMove(u)
  \/ \E u \in Users : DisconnectRemove(u)
  \/ \E u \in Users : DisconnectClose(u)

SpecOne == InitOne /\ [][NextOne]_vars

\* The isolation runs: all users are connected and waiting; two find_match
\* and one call-control frame are read; no read loop ends, no write fails
\* and the reaper finds nobody idle.
IsoLim == [reqs |-> 2, idle |-> 0, down |-> 0, exits |-> 0,
           msgs |-> 1, pings |-> 0]

InitIso == Start(IsoLim, Users)

NextIso ==
  \/ \E u \in Users : RecvFindMatch(u)
  \/ \E u \in Users : FindMatchCreate(u)
  \/ \E u \in Users : FindMatchNotify(u)
  \/ \E u \in Users : FindMatchNotifyPartner(u)
  \/ \E u \in Users : RecvCall(u)
  \/ \E u \in Users : CallFind(u)
  \/ \E u \in Users : CallWrite(u)
  \/ \E u \in Users : CallSet(u)
  \/ \E u \in Users : RelayError(u)

SpecIso == InitIso /\ [][NextIso]_vars

\* ------------------------------------------------------------- vocabulary
InPool(u) == u \in WaitingUsers \cup ActiveUsers

Participants(r) == {r.User1ID, r.User2ID}

ActiveRooms == {r \in DOMAIN Rooms : Rooms[r].IsActive}

\* number of frames of a type written to u
RECURSIVE CountType(_, _)
CountType(fs, type) ==
  IF fs = << >> THEN 0
  ELSE (IF Head(fs).type = type THEN 1 ELSE 0) + CountType(Tail(fs), type)

ConnAlive(u) == conn[u].IsActive /\ conn[u].up

\* ---------------------------------------------------------------- claims

Quiescent ==
  /\ \A u \in Users : pc[u] = "reading" /\ ConnAlive(u)
  /\ reaped = {}

\* C2: after concurrent find_match requests of N connected users, at
\* quiescence the rooms created are half the active users, every user is in
\* at most one created room, and waiting + active = N.
C2_PairingAtomicity ==
  Quiescent =>
    /\ 2 * Len(roomLog) = Cardinality(ActiveUsers)
    /\ \A i, j \in 1..Len(roomLog) :
         i # j => Participants(roomLog[i]) \cap Participants(roomLog[j]) = {}
    /\ Cardinality(WaitingUsers) + Cardinality(ActiveUsers) = NumUsers

\* C3: no user is a participant of two different rooms that are both active.
C3_OneActiveRoomPerUser ==
  \A r1, r2 \in ActiveRooms :
    r1 # r2 => Participants(Rooms[r1]) \cap Participants(Rooms[r2]) = {}

\* C4: a CreateRoom(a, b) whose precondition fails (a = b, or a or b not a
\* key of WaitingUsers) returns no room and changes nothing in the pool.
C4_CreateRoomChecksWaiting ==
  [][\A u \in Users :
       (/\ pc[u] = "fm_create"
        /\ pc'[u] # "fm_create"
        /\ ~(u # partner[u] /\ {u, partner[u]} \subseteq WaitingUsers))
       => (room'[u] = NoRoom /\ UNCHANGED poolVars)]_vars

\* C5: a user id is a key of UserRooms iff it is a key of ActiveUsers.
C5_UserRoomsIffActive ==
  DOMAIN UserRooms = ActiveUsers

\* C6: the participants of every active room are distinct, non-empty, keys
\* of ActiveUsers, and bound to that room in UserRooms.
C6_ActiveRoomWellFormed ==
  \A r \in ActiveRooms :
    /\ Rooms[r].User1ID # Rooms[r].User2ID
    /\ Rooms[r].User1ID # NoUser /\ Rooms[r].User2ID # NoUser
    /\ Participants(Rooms[r]) \subseteq ActiveUsers
    /\ \A v \in Participants(Rooms[r]) :
         v \in DOMAIN UserRooms /\ UserRooms[v] = Rooms[r].ID

\* C7: for every user in the pool, PartnerID is set iff RoomID is set iff the
\* user is active; an active user's UserRooms binding names a room of the
\* user and its partner, the partner is active and points back.
C7_PartnerPointers ==
  /\ \A u \in WaitingUsers \cup ActiveUsers :
       /\ (users[u].PartnerID # NoUser) <=> (users[u].RoomID # NoRoom)
       /\ (users[u].RoomID # NoRoom) <=> (u \in ActiveUsers)
  /\ \A u \in ActiveUsers :
       /\ u \in DOMAIN UserRooms
       /\ UserRooms[u] \in DOMAIN Rooms
       /\ Participants(Rooms[UserRooms[u]]) = {u, users[u].PartnerID}
       /\ users[u].PartnerID \in ActiveUsers
       /\ users[users[u].PartnerID].PartnerID = u

\* C8: when the teardown of a user a, whose session ended while it was
\* paired with b, completes and b's connection is alive, b has received
\* exactly one partner_disconnected frame, is waiting with no partner and no
\* room, a is in no index and no active room has a or b as participant.
C8_TeardownNotifiesPartner ==
  [][\A a \in Users :
       (/\ pc[a] = "dc_close" /\ pc'[a] = "done"
        /\ endedWith[a] # NoUser
        /\ conn'[endedWith[a]].IsActive /\ conn'[endedWith[a]].up)
       => LET b == endedWith[a] IN
          /\ CountType(frames'[b], "partner_disconnected") = 1
          /\ b \in WaitingUsers'
          /\ users'[b].PartnerID = NoUser /\ users'[b].RoomID = NoRoom
          /\ a \notin WaitingUsers' \cup ActiveUsers' \cup DOMAIN UserRooms'
          /\ \A r \in DOMAIN Rooms' :
               Rooms'[r].IsActive
                 => Participants(Rooms'[r]) \cap {a, b} = {}]_vars

\* C9: a reaper run that removes one idle user leaves the pool as
\* RemoveUser would for that user.
C9_ReaperRemovesLikeRemoveUser ==
  [][\A u \in Users :
       (u \notin reaped /\ reaped' = reaped \cup {u})
       => /\ WaitingUsers' = WaitingUsers \ {u}
          /\ ActiveUsers' = ActiveUsers \ {u}
          /\ Rooms' = RemoveUserRooms(u)
          /\ UserRooms' = RemoveUserUserRooms(u)]_vars

\* C10: when the reaper has removed a while a's read loop was running and a
\* was paired with b, and the teardown of a's session then completes while
\* b's connection is alive, b has
\* received exactly one partner_disconnected frame, is waiting with partner
\* and room cleared, and a is in no index.
C10_ReaperThenTeardown ==
  [][\A a \in Users :
       (/\ pc[a] = "dc_close" /\ pc'[a] = "done"
        /\ a \in reaped
        /\ reapedWith[a] # NoUser
        /\ conn'[reapedWith[a]].IsActive /\ conn'[reapedWith[a]].up)
       => LET b == reapedWith[a] IN
          /\ CountType(frames'[b], "partner_disconnected") = 1
          /\ b \in WaitingUsers'
          /\ users'[b].PartnerID = NoUser /\ users'[b].RoomID = NoRoom
          /\ a \notin WaitingUsers' \cup ActiveUsers' \cup DOMAIN UserRooms']_vars

\* the frames of a type and role written to u
RECURSIVE CountRole(_, _, _)
CountRole(fs, type, role) ==
  IF fs = << >> THEN 0
  ELSE (IF Head(fs).type = type /\ Head(fs).role = role THEN 1 ELSE 0)
       + CountRole(Tail(fs), type, role)

\* the find_match requests of u that have been handled to the end, u's
\* connection being alive: each was answered with a waiting frame or with a
\* match_found frame of role caller
Handled(u) ==
  CountType(frames[u], "waiting") + CountRole(frames[u], "match_found", "caller")

\* C12: three connected waiting users have each sent one find_match; at
\* quiescence exactly one room exists, exactly two users are active, and the
\* third is waiting and has been sent a waiting frame.
C12_ThreeWayRace ==
  (/\ \A u \in Users : pc[u] = "reading" /\ ConnAlive(u) /\ Handled(u) = 1
   /\ reqs = NumUsers)
  => /\ Cardinality(DOMAIN Rooms) = 1
     /\ Cardinality(ActiveUsers) = 2
     /\ \E w \in Users :
          /\ WaitingUsers = {w}
          /\ CountType(frames[w], "waiting") = 1

\* C13: A's find_match is the only one read and B is the only other user in
\* the pool; when the handler has returned and both connections are alive,
\* each has exactly one match_found frame, with the same room id, A's with
\* role caller and partner B, B's with role callee and partner A, the stats
\* are waiting 0, active 2, rooms 1 and both users' status is connected.
C13_TwoUserMatch ==
  \A A, B \in Users :
    (/\ A # B
     /\ reqs = 1 /\ Len(roomLog) = 1
     /\ roomLog[1].User1ID = A /\ roomLog[1].User2ID = B
     /\ pc[A] = "reading" /\ pc[B] = "reading"
     /\ \A C \in Users \ {A, B} : pc[C] = "accept"
     /\ ConnAlive(A) /\ ConnAlive(B)
     /\ reaped = {})
    => /\ frames[A] = <<Frame("session", NoUser, NoRoom, ""),
                        Frame("match_found", B, roomLog[1].ID, "caller")>>
       /\ frames[B] = <<Frame("session", NoUser, NoRoom, ""),
                        Frame("match_found", A, roomLog[1].ID, "callee")>>
       /\ GetStats = [waiting_users |-> 0, active_users |-> 2,
                      active_rooms |-> 1]
       /\ users[A].Status = "connected" /\ users[B].Status = "connected"

\* C13 witness: the two users are matched and both notified
C13_Witness ==
  \E A, B \in Users :
    /\ A # B
    /\ reqs = 1 /\ Len(roomLog) = 1
    /\ roomLog[1].User1ID = A /\ roomLog[1].User2ID = B
    /\ pc[A] = "reading" /\ pc[B] = "reading"
    /\ \A C \in Users \ {A, B} : pc[C] = "accept"
    /\ ConnAlive(A) /\ ConnAlive(B)
    /\ reaped = {}
    /\ CountType(frames[B], "match_found") = 1

\* C14: the partner lookup of a find_match never returns the requester and
\* returns none exactly when WaitingUsers has no key but the requester; then
\* the requester is sent a waiting frame, nobody else is sent anything and
\* the pool is unchanged.
C14_LoneRequesterWaits ==
  [][\A u \in Users :
       (/\ reqs' = reqs + 1
        /\ \/ partner'[u] # partner[u]
           \/ frames'[u] # frames[u]
           \/ conn'[u] # conn[u])
       => /\ partner'[u] # u
          /\ (pc'[u] = "reading") <=> (WaitingUsers \ {u} = {})
          /\ pc'[u] # "reading" => /\ pc'[u] = "fm_create"
                                   /\ partner'[u] \in WaitingUsers \ {u}
          /\ pc'[u] = "reading"
               => /\ UNCHANGED poolVars
                  /\ (conn'[u].IsActive /\ conn'[u].up)
                       => frames'[u] = Append(frames[u],
                                             Frame("waiting", NoUser, NoRoom, ""))
                  /\ \A v \in Users \ {u} : frames'[v] = frames[v]]_vars

\* C14 witness: a lone user has asked for a match and been told to wait
C14_Witness ==
  \E u \in Users :
    /\ WaitingUsers = {u} /\ pc[u] = "reading"
    /\ CountType(frames[u], "waiting") = 1
    /\ GetStats = [waiting_users |-> 1, active_users |-> 0, active_rooms |-> 0]

\* C19: over all callers of Connection.Close (heartbeat, teardown, reaper)
\* the underlying channel of a connection is closed at most once.
C19_ClosedOnce ==
  \A u \in Users : conn[u].closes <= 1

\* C11: when the second invocation of handleDisconnect on a user returns,
\* the pool and the frames delivered to every user are what they were when
\* the first invocation had returned.
C11_TeardownTwice ==
  [][\A u \in Users :
       (again[u] /\ pc[u] = "dc_close" /\ pc'[u] = "done")
       => snap = <<WaitingUsers', ActiveUsers', Rooms', UserRooms', users',
                   frames'>>]_vars

IsRelayed(f) == f.type \in {"offer", "answer", "ice_candidate"}

\* the relayed frames from one sender appear in the order in which the
\* sender's frames were read
InReadOrder(fs) ==
  \A i, j \in 1..Len(fs) :
    (i < j /\ IsRelayed(fs[i]) /\ IsRelayed(fs[j]) /\ fs[i].from = fs[j].from)
    => fs[i].seq < fs[j].seq

\* C15: when the offer of a, paired with b, is written to b's channel, b's
\* frames grow by exactly one offer frame, whose payload.sdp is the sdp a
\* sent and whose from is a (whatever from and to the client put in), and
\* b's relayed frames from one sender are in the order the server read them.
C15_RelayRoundTrip ==
  [][\A a \in Users :
       (/\ pc[a] = "rl_write" /\ pc'[a] = "reading"
        /\ cur[a].type = "offer"
        /\ frames'[partner[a]] # frames[partner[a]])
       => LET b == partner[a] IN
          /\ Len(frames'[b]) = Len(frames[b]) + 1
          /\ SubSeq(frames'[b], 1, Len(frames[b])) = frames[b]
          /\ frames'[b][Len(frames'[b])].type = "offer"
          /\ frames'[b][Len(frames'[b])].from = a
          /\ frames'[b][Len(frames'[b])].to = b
          /\ frames'[b][Len(frames'[b])].payload.sdp = cur[a].sent.sdp
          /\ InReadOrder(frames'[b])]_vars

\* the inputs of the relay runs the validation must reject
InvalidInputs ==
  {[type |-> "offer", payload |-> AnswerSdp],
   [type |-> "answer", payload |-> NoMediaSdp],
   [type |-> "ice_candidate", payload |-> BadCandidate]}

\* C16: an offer, answer or candidate that fails validation is not
\* forwarded: reading it changes neither the pool (indices, call states) nor
\* anybody's frames, the handler then sends the sender an error frame and
\* nobody else anything, and returns to the read loop.
C16_InvalidNotForwarded ==
  [][\A u \in Users :
       /\ (/\ nread'[u] = nread[u] + 1
           /\ [type |-> cur'[u].type, payload |-> cur'[u].sent]
                 \in InvalidInputs)
          => /\ pc'[u] = "rl_error"
             /\ cur'[u].error # << >>
             /\ UNCHANGED <<poolVars, frames>>
       /\ (pc[u] = "rl_error" /\ pc'[u] # "rl_error")
          => /\ pc'[u] = "reading"
             /\ UNCHANGED poolVars
             /\ \A v \in Users \ {u} : frames'[v] = frames[v]
             /\ (conn'[u].IsActive /\ conn'[u].up)
                  => frames'[u] = Append(frames[u], ErrorFrame(cur[u].error))]_vars

\* C16 witness: a paired user has sent an offer of the wrong type and has
\* been sent the error, its partner nothing
C16_Witness ==
  \E u \in Users :
    /\ pc[u] = "reading" /\ nread[u] = 1
    /\ FindPartner(u) # NoUser
    /\ Len(frames[u]) > 0
    /\ frames[u][Len(frames[u])] =
         ErrorFrame(<<"Invalid SDP offer format", "expected type", "offer",
                      "got", <<"answer">> >>)
    /\ CountType(frames[FindPartner(u)], "offer") = 0
    /\ CountType(frames[FindPartner(u)], "error") = 0

\* C18: once Close has returned on a connection, the connection stays
\* inactive and no WriteJSON on it, by whichever task, adds a frame to its
\* channel.
C18_NoWriteAfterClose ==
  [][\A c \in Users :
       conn[c].closes > 0
       => /\ frames'[c] = frames[c]
          /\ ~conn[c].IsActive /\ ~conn'[c].IsActive]_vars

\* C18 witness: a teardown has tried to write partner_disconnected to a
\* partner whose connection had been closed
C18_Witness ==
  \E u, v \in Users :
    /\ u # v
    /\ pc[v] = "dc_move" /\ partner[v] = u
    /\ conn[u].closes > 0
    /\ CountType(frames[u], "partner_disconnected") = 0

\* C20: the handler of a valid offer from a paired user sets the call state
\* of both participants to ringing; the handler of a valid answer sets both
\* to answered and sets the StartedAt of the room the sender is bound to;
\* and a relayed frame carries the sender's id as from.
C20_CallStateOnRelay ==
  [][\A a \in Users :
       /\ (pc[a] = "rl_set" /\ pc'[a] = "rl_write")
          => /\ cur[a].type = "offer"
                => /\ users'[a].CallState = "ringing"
                   /\ users'[partner[a]].CallState = "ringing"
             /\ cur[a].type = "answer"
                => /\ users'[a].CallState = "answered"
                   /\ users'[partner[a]].CallState = "answered"
                   /\ a \in DOMAIN UserRooms
                        => Rooms'[UserRooms[a]].StartedAt # NoTime
       /\ (/\ pc[a] = "rl_write" /\ pc'[a] = "reading"
           /\ frames'[partner[a]] # frames[partner[a]])
          => frames'[partner[a]][Len(frames'[partner[a]])].from = a]_vars

NoPartnerError(e) ==
  /\ e # << >>
  /\ e[1] \in {"No partner found for WebRTC", "No partner found to start call",
               "No partner found to accept call"}

\* C21: when FindPartner returns nil in a relay or call-control handler,
\* the pool, the call states and all frames are unchanged by that step; a
\* candidate is dropped (the handler returns), an offer, answer, call_start
\* or call_accept leads to sendError, which writes one error frame to the
\* sender (when its connection is alive), nothing to anybody else, and
\* leaves the pool and the call states unchanged.
C21_NoPartner ==
  [][\A u \in Users :
       /\ (/\ pc[u] \in {"rl_find", "cl_find"} /\ pc'[u] # pc[u]
           /\ FindPartner(u) = NoUser)
          => /\ UNCHANGED <<poolVars, frames>>
             /\ cur[u].type = "ice_candidate"
                  => pc'[u] = "reading" /\ cur'[u] = NoMsg
             /\ cur[u].type \in {"offer", "answer", "call_start", "call_accept"}
                  => pc'[u] = "rl_error" /\ NoPartnerError(cur'[u].error)
       /\ (/\ pc[u] = "rl_error" /\ pc'[u] # "rl_error"
           /\ NoPartnerError(cur[u].error))
          => /\ pc'[u] = "reading"
             /\ UNCHANGED poolVars
             /\ \A v \in Users \ {u} : frames'[v] = frames[v]
             /\ \/ frames'[u] = Append(frames[u], ErrorFrame(cur[u].error))
                \/ ~ConnAlive(u) /\ frames'[u] = frames[u]]_vars

\* C21 witness: a user without a partner has sent call_start and has been
\* sent the error; nobody else has been sent anything but the session frame
C21_Witness ==
  \E u \in Users :
    /\ pc[u] = "reading" /\ nread[u] = 1
    /\ FindPartner(u) = NoUser
    /\ frames[u] = <<Frame("session", NoUser, NoRoom, ""),
                     ErrorFrame(<<"No partner found to start call">>)>>
    /\ \A v \in Users \ {u} : Len(frames[v]) = 1

\* C22: a call-control handler that found a partner writes one notification
\* of the frame's kind, from the sender, to the partner's channel and to no
\* other, and then assigns the call states of the table: call_start the
\* sender's to ringing and nobody else's, call_accept both to answered,
\* call_reject both to ended, call_end both to ended and the EndedAt of the
\* room the sender is bound to.
C22_CallControlTable ==
  [][\A u \in Users :
       /\ (pc[u] = "cl_write" /\ pc'[u] # "cl_write" /\ ConnAlive(partner[u]))
          => /\ Len(frames'[partner[u]]) = Len(frames[partner[u]]) + 1
             /\ frames'[partner[u]][Len(frames'[partner[u]])].type =
                  Notification(cur[u].type)
             /\ frames'[partner[u]][Len(frames'[partner[u]])].from = u
             /\ \A v \in Users \ {partner[u]} : frames'[v] = frames[v]
       /\ (pc[u] = "cl_set" /\ pc'[u] # "cl_set" /\ partner[u] # NoUser)
          => /\ cur[u].type = "call_start"
                => /\ users'[u].CallState = "ringing"
                   /\ \A v \in Users \ {u} : users'[v] = users[v]
             /\ cur[u].type = "call_accept"
                => /\ users'[u].CallState = "answered"
                   /\ users'[partner[u]].CallState = "answered"
             /\ cur[u].type = "call_reject"
                => /\ users'[u].CallState = "ended"
                   /\ users'[partner[u]].CallState = "ended"
             /\ cur[u].type = "call_end"
                => /\ users'[u].CallState = "ended"
                   /\ users'[partner[u]].CallState = "ended"
                   /\ u \in DOMAIN UserRooms
                        => Rooms'[UserRooms[u]].EndedAt # NoTime]_vars

\* C23: for every source the recorded count is between 1 and the cap while
\* the map holds the source and 0 otherwise; CheckWebSocketConnection at
\* the cap returns false and changes nothing, below the cap it returns true
\* and adds one to that source only; ReleaseWebSocketConnection of a source
\* with no connection changes nothing, otherwise it takes one from that
\* source only, and the source leaves the map when its count becomes 0.
C23_LimiterCount ==
  /\ [](\A ip \in DOMAIN wsConnections :
          wsConnections[ip] >= 1 /\ wsConnections[ip] <= maxWSConnPerIP)
  /\ [][LET ip == ret'.ip
            c  == Connections(wsConnections, ip)
            c2 == Connections(wsConnections', ip)
        IN
        /\ \A i \in Sources \ {ip} :
             Connections(wsConnections', i) = Connections(wsConnections, i)
        /\ ret'.op = "check"
             => IF c >= maxWSConnPerIP
                THEN ~ret'.ok /\ wsConnections' = wsConnections
                ELSE ret'.ok /\ c2 = c + 1
        /\ ret'.op = "release"
             => IF c = 0 THEN wsConnections' = wsConnections
                ELSE c2 = c - 1 /\ (c2 = 0 => ip \notin DOMAIN wsConnections')
     ]_vars

\* C23 witness: a source at a cap of two has just been refused a third
\* connection while another source holds one
C23_Witness ==
  /\ maxWSConnPerIP = 2
  /\ \E ip, other \in Sources :
       /\ ip # other
       /\ Connections(wsConnections, ip) = 2
       /\ Connections(wsConnections, other) = 1
       /\ ret = [op |-> "check", ip |-> ip, ok |-> FALSE]

\* the source address of the request that opened u's session: the first
\* two come from one address
SourceOf(u) == IF u <= 2 THEN 1 ELSE 2

\* u's session has been accepted and its teardown has not finished
Live(u) == pc[u] \notin {"accept", "refused", "done"}

\* C24: the rate limiter holds, for every source, as many connection slots
\* as the source has live sessions.
C24_SlotPerSession ==
  \A ip \in Sources :
    Connections(wsConnections, ip) =
      Cardinality({u \in Users : SourceOf(u) = ip /\ Live(u)})

\* every goroutine of both phases of the concurrency tests has returned
PairsDone ==
  /\ \A u \in PoolUsers : pc[u] # "new"
  /\ \A i \in 1..NumPairs : pc[2 * i - 1] = "roomed"

\* C25: after the users have been added concurrently and CreateRoom has
\* been called concurrently on disjoint pairs of them, every user is in
\* exactly one of WaitingUsers and ActiveUsers, the number of active users is
\* even and there are at most half as many rooms as active users.
C25_ConcurrentPairs ==
  PairsDone
  => /\ Cardinality(WaitingUsers) + Cardinality(ActiveUsers)
          = Cardinality(PoolUsers)
     /\ WaitingUsers \cup ActiveUsers = PoolUsers
     /\ Cardinality(ActiveUsers) % 2 = 0
     /\ 2 * Cardinality(DOMAIN Rooms) <= Cardinality(ActiveUsers)

\* C25 witness: all pairs have been made, two of them in the same second, so
\* that their rooms have the same id and Rooms holds fewer rooms than pairs
C25_Witness ==
  /\ PairsDone
  /\ Cardinality(ActiveUsers) = 2 * NumPairs
  /\ Cardinality(WaitingUsers) = 1
  /\ Cardinality(DOMAIN Rooms) < NumPairs

\* C26: a call RemoveUser(u) takes u out of WaitingUsers and ActiveUsers and
\* nobody else, marks the room u is bound to inactive and no other room,
\* deletes the UserRooms bindings of u and of u's partner and no other; a
\* call for a user that was never added, or a second call, changes nothing.
C26_RemoveUser ==
  [][\A u \in PoolUsers :
       (pc'[u] # pc[u] /\ pc'[u] \in {"removed", "removed again"})
       => LET p == users[u].PartnerID IN
          /\ WaitingUsers' = WaitingUsers \ {u}
          /\ ActiveUsers' = ActiveUsers \ {u}
          /\ u \notin DOMAIN UserRooms'
          /\ u \in DOMAIN UserRooms
               => /\ ~Rooms'[UserRooms[u]].IsActive
                  /\ p \notin DOMAIN UserRooms'
          /\ \A v \in DOMAIN UserRooms \ {u, p} :
               v \in DOMAIN UserRooms' /\ UserRooms'[v] = UserRooms[v]
          /\ \A r \in DOMAIN Rooms :
               (u \notin DOMAIN UserRooms \/ r # UserRooms[u])
               => Rooms'[r] = Rooms[r]
          /\ pc[u] \in {"new", "removed"} => UNCHANGED poolVars]_vars
\* the ping write of u's heartbeat has failed while u's read loop is running
HeartbeatFailed(u) == hb[u] = "close" /\ pc[u] \notin TeardownPcs

\* C27: a heartbeat whose ping write has failed closes the connection and
\* returns; the session's read loop then ends and teardown runs to its end,
\* so the user leaves the pool, and the user's partner gets
\* partner_disconnected unless it is leaving itself or its channel is dead.
\* Every heartbeat whose connection is inactive returns.
C27_HeartbeatFailure ==
  /\ \A u \in LiveUsers :
       /\ HeartbeatFailed(u)
            ~> (hb[u] = "exit" /\ ~conn[u].IsActive /\ pc[u] = "done")
       /\ HeartbeatFailed(u) ~> (u \notin WaitingUsers \cup ActiveUsers)
       /\ (hb[u] = "run" /\ ~conn[u].IsActive) ~> (hb[u] = "exit")
  /\ \A u \in LiveUsers : \A p \in LiveUsers \ {u} :
       (HeartbeatFailed(u) /\ PairedWith(u) = p)
         ~> \/ CountType(frames[p], "partner_disconnected") > 0
            \/ pc[p] \in TeardownPcs
            \/ ~conn[p].up

\* a paired user's heartbeat has failed on a live read loop and the user's
\* teardown has run to its end, the partner notified
C27_Witness ==
  \E u \in Users : \E p \in Users \ {u} :
    /\ hb[u] = "exit"
    /\ ~conn[u].up
    /\ pc[u] = "done"
    /\ pc[p] = "reading"
    /\ CountType(frames[p], "partner_disconnected") > 0
    /\ u \notin WaitingUsers \cup ActiveUsers
\* C28: once the shutdown of the process has completed, WaitingUsers and
\* ActiveUsers are empty and the connection of every accepted session is
\* closed
C28_ShutdownTearsDown ==
  main = "exited" =>
    /\ WaitingUsers = {}
    /\ ActiveUsers = {}
    /\ \A u \in Users : pc[u] # "accept" => ~conn[u].IsActive
\* C29: a connection the server has closed was sent an error frame or a
\* partner_disconnected frame before.  Frames are written on open
\* connections only, so a frame of the session precedes its close; in the
\* runs of SpecShutdown no write on an open connection fails, so an attempt
\* to send one is a frame sent.
C29_FrameBeforeClose ==
  \A u \in Users :
    conn[u].closes > 0 =>
      \E i \in 1..Len(frames[u]) :
        frames[u][i].type \in {"error", "partner_disconnected"}
\* u's read loop has read a frame of one of the types in this step
Reads(u, types) == nread'[u] = nread[u] + 1 /\ cur'[u].type \in types

\* C30: reading a disconnect frame ends the read loop and calls teardown
\* for the session; reading a pong or a frame of unknown type sets the
\* session's LastPing to the present and leaves the pool, every user's
\* partner, room and call state, the rooms and the frames of every other
\* connection as they were, the read loop going on
C30_OtherFrames ==
  [][\A u \in Users :
       /\ Reads(u, {"disconnect"}) =>
            /\ pc[u] = "reading"
            /\ pc'[u] = "dc_find"
       /\ Reads(u, {"pong", "unknown"}) =>
            /\ LastPing'[u] = now
            /\ \A v \in Users \ {u} : LastPing'[v] = LastPing[v]
            /\ poolVars' = poolVars
            /\ \A v \in Users \ {u} : frames'[v] = frames[v]
            /\ conn' = conn
            /\ pc' = pc
            /\ pc[u] = "reading"]_vars

\* a paired user has sent a pong or an unknown frame half a minute after it
\* connected and reads on; another user has sent disconnect and is in
\* teardown
C30_Witness ==
  \E u \in Users : \E w \in Users \ {u} :
    /\ cur[u].type \in {"pong", "unknown"}
    /\ pc[u] = "reading"
    /\ u \in ActiveUsers
    /\ LastPing[u] = Period
    /\ cur[w].type = "disconnect"
    /\ pc[w] \in TeardownPcs
\* what the contract accepts as the payload of an offer (expected = "offer")
\* or of an answer
WellFormedSdp(payload, expected) ==
  /\ payload.isMap
  /\ payload.sdp.tag = "str"
  /\ Len(payload.sdp.val) > 0
  /\ HasPrefix(payload.sdp.val, "v=0")
  /\ Contains(payload.sdp.val, "o=")
  /\ Contains(payload.sdp.val, "s=")
  /\ Contains(payload.sdp.val, "t=")
  /\ \/ Contains(payload.sdp.val, "m=audio")
     \/ Contains(payload.sdp.val, "m=application")
  /\ payload.type.tag # "absent" => payload.type = Str(<<expected>>)
  /\ Size(payload.sdp.val) <= MaxSDPSize

\* C31: the validation of an offer or answer accepts the payload exactly
\* when it is an object with a non-empty string sdp that starts with v=0,
\* contains o=, s=, t= and a media line, whose type, if present, is the
\* expected one, and whose size is at most MaxSDPSize; it rejects every
\* other payload with a reason
C31_ValidateSdp ==
  \A u \in Users :
    cur[u].type \in {"offer", "answer"} =>
      /\ (cur[u].error = << >>) <=> WellFormedSdp(cur[u].payload, cur[u].type)
      /\ (pc[u] = "rl_find") <=> (cur[u].error = << >>)
\* the positions of a session whose next step is one call of a pool method
\* that takes the pool's mutex for writing: AddWaitingUser, CreateRoom,
\* MoveToWaiting, RemoveUser
PoolLockPcs == {"accept", "fm_create", "dc_move", "dc_remove"}

\* C32: a step of a session that changes one of the pool's four indices is
\* made inside a pool method, holding the pool's mutex (the reaper, which
\* has no position, runs performCleanup under the mutex)
C32_IndicesUnderLock ==
  [][(<<WaitingUsers, ActiveUsers, Rooms, UserRooms>>' #
        <<WaitingUsers, ActiveUsers, Rooms, UserRooms>>)
       => \A u \in Users : pc'[u] # pc[u] => pc[u] \in PoolLockPcs]_vars
\* the positions of a session whose next step is one call of a pool method
\* (FindPartner reads under the mutex, the others write)
PoolCallPcs == PoolLockPcs \cup {"dc_find"}

\* u's teardown has moved u's partner to waiting and has not yet removed u
Halfway(u) == pc[u] = "dc_remove" /\ partner[u] # NoUser

\* C33: while a teardown is between its MoveToWaiting(partner) and its
\* RemoveUser(self), no other session makes a step that reads or changes
\* the pool: no pool method is called and no find_match looks for a partner
C33_TeardownAtomic ==
  [][\A u \in Users :
       Halfway(u) =>
         /\ reqs' = reqs
         /\ \A v \in Users \ {u} :
              pc[v] \in PoolCallPcs => pc'[v] = pc[v]]_vars
\* a step made while the pool's mutex is held: a step of the reaper, which
\* changes the indices and is no session's step, or the step of a session
\* that is one call of a pool method (accept apart, whose step is the
\* write of the session frame followed by AddWaitingUser)
UnderPoolLock ==
  \/ /\ pc' = pc
     /\ <<WaitingUsers, ActiveUsers, Rooms, UserRooms>>' #
          <<WaitingUsers, ActiveUsers, Rooms, UserRooms>>
  \/ \E u \in Users : pc'[u] # pc[u] /\ pc[u] \in PoolCallPcs \ {"accept"}

\* C34: no connection is written to or closed (both take the connection's
\* mutex and then use the channel) in a step made while the pool's mutex
\* is held
C34_NoIOUnderPoolLock ==
  [][UnderPoolLock => conn' = conn /\ frames' = frames]_vars
\* C35: the room id of every CreateRoom call differs from the ids of the
\* rooms in Rooms, so no entry of Rooms is overwritten: Rooms has as many
\* entries as there have been CreateRoom calls (no entry is ever deleted)
C35_FreshRoomIds ==
  /\ Cardinality(DOMAIN Rooms) = Len(roomLog)
  /\ \A i, j \in 1..Len(roomLog) : i # j => roomLog[i].ID # roomLog[j].ID
\* the user the latest CreateRoom call on u paired u with, NoUser when u
\* has been in no room
RECURSIVE LastPaired(_, _)
LastPaired(u, i) ==
  IF i = 0 THEN NoUser
  ELSE IF roomLog[i].User1ID = u THEN roomLog[i].User2ID
  ELSE IF roomLog[i].User2ID = u THEN roomLog[i].User1ID
  ELSE LastPaired(u, i - 1)

\* C36: a call-control notification u's handler writes to a connection goes
\* to the user that the CreateRoom call of u's current room paired u with,
\* and that user's current room is the one it shares with u
C36_RoomIsolation ==
  [][\A u \in Users : \A p \in Users :
       (pc[u] = "cl_write" /\ pc'[u] # pc[u] /\ frames'[p] # frames[p]) =>
         /\ LastPaired(u, Len(roomLog)) = p
         /\ LastPaired(p, Len(roomLog)) = u]_vars
\* C37: a user whose teardown has returned (RemoveUser done, connection
\* closed) is a key of none of WaitingUsers, ActiveUsers and UserRooms
C37_NoReturnAfterTeardown ==
  \A u \in Users :
    pc[u] = "done" =>
      /\ u \notin WaitingUsers \cup ActiveUsers
      /\ u \notin DOMAIN UserRooms
\* C38: the handler of a find_match read from a user that is paired in an
\* active room does not go on to CreateRoom: the step leaves the pool as it
\* is and the read loop of the user goes on
C38_FindMatchWhenPaired ==
  [][\A u \in Users :
       (reqs' = reqs + 1 /\ pc[u] = "reading" /\ LastPing'[u] = now
          /\ (pc'[u] # pc[u] \/ frames'[u] # frames[u])
          /\ u \in ActiveUsers /\ PairedWith(u) # NoUser)
       => /\ pc'[u] = "reading"
          /\ poolVars' = poolVars]_vars
\* C39: when u's teardown has moved u's partner b back to waiting and b
\* has been paired with another user since, RemoveUser(u) leaves b alone:
\* b stays bound to its room in UserRooms, the room stays active and
\* FindPartner(b) returns the same partner
C39_RemoveSparesRematched ==
  [][\A u \in Users :
       (Halfway(u) /\ pc'[u] = "dc_close"
          /\ PairedWith(partner[u]) \notin {NoUser, u}) =>
         LET b == partner[u] IN
         /\ b \in DOMAIN UserRooms'
         /\ UserRooms'[b] = UserRooms[b]
         /\ Rooms'[UserRooms[b]].IsActive
         /\ FindPartner(b)' = FindPartner(b)]_vars
\* C40: a partner_disconnected frame on a connection comes after a
\* match_found frame on that connection: nobody is told that a partner has
\* left without having been told of the match
C40_MatchFoundFirst ==
  \A p \in Users : \A i \in 1..Len(frames[p]) :
    frames[p][i].type = "partner_disconnected" =>
      \E j \in 1..(i - 1) : frames[p][j].type = "match_found"
====
